---- MODULE Spec2Model ----
(***************************************************************************)
(* A model of the graphcache read path (src/src/operations/query.ts), the  *)
(* selection iterator (operations/shared.ts), the store and write path it  *)
(* reads from, and the populate transform.                                  *)
(*                                                                         *)
(* JavaScript values are tagged records: [t |-> "undefined"],              *)
(* [t |-> "null"], [t |-> "string"|"number"|"boolean", v |-> ...],         *)
(* [t |-> "object", f |-> alias -> value], [t |-> "array", items |-> seq]. *)
(***************************************************************************)
EXTENDS Naturals, Sequences, FiniteSets, TLC

VARIABLES
  records,     \* store: fully-qualified field key -> scalar
  links,       \* store: fully-qualified field key -> Link
  config,      \* store construction: schema oracle and resolvers
  deps,        \* the ambient dependency capture ("none" outside a call)
  history,     \* the writes performed, in order
  res,         \* the query that has just returned and its result, or NoRes
  activeQueries,    \* populate: key of each live query -> typenames it references
  parsedOperations, \* populate: keys of the queries walked so far
  typeFragments,    \* populate: typename -> synthesized fragments, in order
  userFragments,    \* populate: fragment name -> definition, from the queries
  tornDown,         \* history: keys torn down and not observed again since
  out,              \* populate: the operation forwarded last
  stream,           \* populate: the operations received and forwarded so far
  iterator          \* a SelectionIterator in use and the nodes it has returned

cacheVars == <<records, links, config, deps, history, res, iterator>>
populateVars == <<activeQueries, parsedOperations, typeFragments,
                  userFragments, tornDown, out, stream>>
vars == <<records, links, config, deps, history, res,
          activeQueries, parsedOperations, typeFragments, userFragments,
          tornDown, out, stream, iterator>>

----------------------------------------------------------------------------
(* Values *)

Undef == [t |-> "undefined"]
Null == [t |-> "null"]
Str(s) == [t |-> "string", v |-> s]
Num(s) == [t |-> "number", v |-> s]
Obj(f) == [t |-> "object", f |-> f]
Arr(items) == [t |-> "array", items |-> items]
EmptyObj == Obj(<<>>)

\* data[alias]
Get(data, alias) ==
  IF data.t = "object" /\ alias \in DOMAIN data.f THEN data.f[alias] ELSE Undef

\* data[alias] = value
Set(data, alias, value) == Obj((alias :> value) @@ data.f)

\* typeof x === 'string'
IsString(x) == x.t = "string"

\* prevData !== undefined ? prevData[index] : undefined
AtIndex(prevData, i) ==
  IF prevData.t = "array" /\ i \in 1..Len(prevData.items)
  THEN prevData.items[i] ELSE Undef

\* prevData === undefined ? Object.create(null) : prevData
OrNewObject(prevData) == IF prevData.t = "object" THEN prevData ELSE EmptyObj

----------------------------------------------------------------------------
(* Key helpers *)

\* joinKeys(parentKey, childKey)
joinKeys(parentKey, childKey) == parentKey \o "." \o childKey

\* keyOfField(name, args): args is the canonical serialization ("" when the
\* field has no arguments)
keyOfField(fieldName, fieldArgs) ==
  IF fieldArgs = "" THEN fieldName ELSE fieldName \o "(" \o fieldArgs \o ")"

----------------------------------------------------------------------------
(* AST accessors *)

NoNode == [kind |-> "undefined"]

Field(name, alias, args, directives, hasSel, sel) ==
  [kind |-> "Field", name |-> name, alias |-> alias, args |-> args,
   directives |-> directives, hasSel |-> hasSel, sel |-> sel]
Leaf(name) == Field(name, name, <<>>, <<>>, FALSE, <<>>)
Sub(name, sel) == Field(name, name, <<>>, <<>>, TRUE, sel)
FragmentSpread(name) ==
  [kind |-> "FragmentSpread", name |-> name, directives |-> <<>>]
InlineFragment(typeCondition, sel) ==
  [kind |-> "InlineFragment", typeCondition |-> typeCondition,
   directives |-> <<>>, sel |-> sel]
FragmentDefinition(name, typeCondition, sel) ==
  [kind |-> "FragmentDefinition", name |-> name,
   typeCondition |-> typeCondition, sel |-> sel]

getName(node) == node.name
getFieldAlias(node) == node.alias
getSelectionSet(node) == node.sel
getTypeCondition(node) == node.typeCondition
isFieldNode(node) == node.kind = "Field"
isInlineFragment(node) == node.kind = "InlineFragment"

\* An argument or directive value: a literal or a variable reference.
Var(name) == [var |-> TRUE, v |-> name]

\* Variables not supplied are substituted by "null".
ValueOf(value, variables) ==
  IF ~value.var THEN value.v
  ELSE IF value.v \in DOMAIN variables THEN variables[value.v] ELSE "null"

RECURSIVE SerializeArgs(_, _)
\* The canonical serialization of the arguments, which the documents list in
\* key order.
SerializeArgs(args, variables) ==
  IF args = <<>> THEN ""
  ELSE LET head == args[1].name \o ":" \o ValueOf(args[1].value, variables)
           rest == SerializeArgs(Tail(args), variables)
       IN IF rest = "" THEN head ELSE head \o "," \o rest

getFieldArguments(node, variables) == SerializeArgs(node.args, variables)

RECURSIVE shouldIncludeFrom(_, _, _)
shouldIncludeFrom(directives, i, variables) ==
  IF i > Len(directives) THEN TRUE
  ELSE LET d == directives[i]
           arg == ValueOf(d.value, variables)
       IN IF d.name = "skip" THEN arg # "true"
          ELSE IF d.name = "include" THEN arg = "true"
          ELSE shouldIncludeFrom(directives, i + 1, variables)

\* shouldInclude(node, vars): the first @skip/@include directive decides
shouldInclude(node, variables) == shouldIncludeFrom(node.directives, 1, variables)

----------------------------------------------------------------------------
(* Schema oracle *)

\* The schema the oracle is derived from when the store is given one:
\*   type Query { int: Int, todo: Todo, todos: [Todo] }
\*   interface Node { id: ID! }
\*   type Todo implements Node { id: ID!, text: String! }
\*   type Mutation { mutate: MutateResult }
\*   type MutateResult { viewer: Query }
NullableFields ==
  {<<"Query", "int">>, <<"Query", "todo">>, <<"Query", "todos">>,
   <<"Mutation", "mutate">>, <<"MutateResult", "viewer">>}

\* schemaPredicates.isFieldNullable(typename, fieldName)
isFieldNullable(typename, fieldName) == <<typename, fieldName>> \in NullableFields

\* schemaPredicates.isInterfaceOfType(typeCondition, typename)
isInterfaceOfType(typeCondition, typename) ==
  typeCondition = typename \/ (typeCondition = "Node" /\ typename = "Todo")

----------------------------------------------------------------------------
(* Store *)

\* store.getRootKey(operation)
getRootKey(operation) ==
  CASE operation = "query" -> "Query"
    [] operation = "mutation" -> "Mutation"
    [] operation = "subscription" -> "Subscription"


getRecord(store, fieldKey) ==
  IF fieldKey \in DOMAIN store.records THEN store.records[fieldKey] ELSE Undef

getLink(store, fieldKey) ==
  IF fieldKey \in DOMAIN store.links THEN store.links[fieldKey] ELSE Undef

\* store.getField(entityKey, fieldName)
getField(store, entityKey, fieldName) ==
  getRecord(store, joinKeys(entityKey, keyOfField(fieldName, "")))

hasField(store, fieldKey) ==
  getRecord(store, fieldKey) # Undef \/ getLink(store, fieldKey) # Undef

writeRecord(store, fieldKey, value) ==
  [store EXCEPT !.records = (fieldKey :> value) @@ @]

writeLink(store, fieldKey, link) ==
  [store EXCEPT !.links = (fieldKey :> link) @@ @]

\* store.keyOfEntity(data): the root key, "<Typename>:<id>", or null
keyOfEntity(data) ==
  LET typename == Get(data, "__typename")
      id == IF Get(data, "id") \notin {Undef, Null} THEN Get(data, "id")
            ELSE Get(data, "_id")
  IN IF ~IsString(typename) THEN Null
     ELSE IF typename.v \in {"Query", "Mutation", "Subscription"} THEN typename
     ELSE IF id \in {Undef, Null} THEN Null
     ELSE Str(typename.v \o ":" \o id.v)

----------------------------------------------------------------------------
(* operations/shared.ts *)

\* Variant that is content with one field of the fragment in the store
isFragmentHeuristicallyMatchingAny(node, typename, entityKey, ctx) ==
  IF typename = "" THEN FALSE
  ELSE IF typename = getTypeCondition(node) THEN TRUE
  ELSE \E i \in 1..Len(getSelectionSet(node)) :
         /\ isFieldNode(getSelectionSet(node)[i])
         /\ hasField(ctx.store,
                     joinKeys(entityKey,
                              keyOfField(getName(getSelectionSet(node)[i]),
                                         getFieldArguments(getSelectionSet(node)[i],
                                                           ctx.variables))))

isFragmentHeuristicallyMatching(node, typename, entityKey, ctx) ==
  IF typename = "" THEN FALSE
  ELSE IF typename = getTypeCondition(node) THEN TRUE
  ELSE ~ \E i \in 1..Len(getSelectionSet(node)) :
         LET n == getSelectionSet(node)[i]
         IN IF ~isFieldNode(n) THEN FALSE
            ELSE LET fieldName == getName(n)
                     fieldArgs == getFieldArguments(n, ctx.variables)
                     fieldKey == keyOfField(fieldName, fieldArgs)
                 IN ~hasField(ctx.store, joinKeys(entityKey, fieldKey))

\* Variant that pushes the selection twice
SelectionIteratorTwice(select) ==
  [indexStack |-> <<0>>, selectionStack |-> <<select, select>>]

\* new SelectionIterator(typename, entityKey, select, ctx)
SelectionIterator(select) == [indexStack |-> <<0>>, selectionStack |-> <<select>>]

\* Variant that empties the stack
PopAll(seq) == <<>>

\* stack.pop()
Pop(seq) == SubSeq(seq, 1, Len(seq) - 1)

RECURSIVE IterNextHeuristic(_, _, _, _)
\* Variant that asks the store whether a fragment matches even when the
\* context has a schema oracle
IterNextHeuristic(it, typename, entityKey, ctx) ==
  IF Len(it.indexStack) = 0 THEN [node |-> NoNode, it |-> it]
  ELSE
    LET top == Len(it.indexStack)
        index == it.indexStack[top]
        select == it.selectionStack[top]
        it1 == [it EXCEPT !.indexStack[top] = index + 1]
    IN IF index >= Len(select)
       THEN IterNextHeuristic([indexStack |-> Pop(it1.indexStack),
                               selectionStack |-> Pop(it1.selectionStack)],
                              typename, entityKey, ctx)
       ELSE
         LET node == select[index + 1]
         IN IF ~shouldInclude(node, ctx.variables)
            THEN IterNextHeuristic(it1, typename, entityKey, ctx)
            ELSE IF ~isFieldNode(node)
            THEN
              LET fragmentNode ==
                    IF ~isInlineFragment(node)
                    THEN IF getName(node) \in DOMAIN ctx.fragments
                         THEN ctx.fragments[getName(node)] ELSE NoNode
                    ELSE node
              IN IF fragmentNode # NoNode
                 THEN
                   IF ~isFragmentHeuristicallyMatching(fragmentNode, typename,
                                                       entityKey, ctx)
                   THEN IterNextHeuristic(it1, typename, entityKey, ctx)
                   ELSE IterNextHeuristic(
                          [indexStack |-> Append(it1.indexStack, 0),
                           selectionStack |->
                             Append(it1.selectionStack,
                                    getSelectionSet(fragmentNode))],
                          typename, entityKey, ctx)
                 ELSE IterNextHeuristic(it1, typename, entityKey, ctx)
            ELSE IF getName(node) = "__typename"
            THEN IterNextHeuristic(it1, typename, entityKey, ctx)
            ELSE [node |-> node, it |-> it1]

RECURSIVE IterNext(_, _, _, _)
\* SelectionIterator.next(): the node returned and the iterator afterwards
IterNext(it, typename, entityKey, ctx) ==
  IF Len(it.indexStack) = 0 THEN [node |-> NoNode, it |-> it]
  ELSE
    LET top == Len(it.indexStack)
        index == it.indexStack[top]
        select == it.selectionStack[top]
        it1 == [it EXCEPT !.indexStack[top] = index + 1]
    IN IF index >= Len(select)
       THEN IterNext([indexStack |-> Pop(it1.indexStack),
                      selectionStack |-> Pop(it1.selectionStack)],
                     typename, entityKey, ctx)
       ELSE
         LET node == select[index + 1]
         IN IF ~shouldInclude(node, ctx.variables)
            THEN IterNext(it1, typename, entityKey, ctx)
            ELSE IF ~isFieldNode(node)
            THEN
              LET fragmentNode ==
                    IF ~isInlineFragment(node)
                    THEN IF getName(node) \in DOMAIN ctx.fragments
                         THEN ctx.fragments[getName(node)] ELSE NoNode
                    ELSE node
              IN IF fragmentNode # NoNode
                 THEN
                   LET typeCondition == getTypeCondition(fragmentNode)
                       isMatching ==
                         IF ctx.schemaPredicates
                         THEN isInterfaceOfType(typeCondition, typename)
                         ELSE isFragmentHeuristicallyMatching(
                                fragmentNode, typename, entityKey, ctx)
                   IN IF ~isMatching
                      THEN IterNext(it1, typename, entityKey, ctx)
                      ELSE IterNext(
                             [indexStack |-> Append(it1.indexStack, 0),
                              selectionStack |->
                                Append(it1.selectionStack,
                                       getSelectionSet(fragmentNode))],
                             typename, entityKey, ctx)
                 ELSE IterNext(it1, typename, entityKey, ctx)
            ELSE IF getName(node) = "__typename"
            THEN IterNext(it1, typename, entityKey, ctx)
            ELSE [node |-> node, it |-> it1]

RECURSIVE isScalar(_)
\* isScalar(x)
isScalar(x) ==
  IF x.t = "array" THEN \E i \in 1..Len(x.items) : isScalar(x.items[i])
  ELSE x.t \notin {"object", "null"}
       \/ (x.t # "null" /\ ~IsString(Get(x, "__typename")))

----------------------------------------------------------------------------
(* Resolvers *)

\* The resolvers a store may be constructed with, by typename and field name.
\*   Query.todo: () => ({ __typename: 'Todo', id: '1' })
ResolverTable == (<<"Query", "todo">> :> "todoOne")

\* The same field with a resolver that returns a number, an object without
\* __typename, null or undefined
ResolverTables ==
  {(<<"Query", "todo">> :> resolver) :
     resolver \in {"todoOne", "scalar", "untyped", "null", "undefined"}}

\* What a call that throws leaves in place of a value: the exception unwinds
\* readSelection, read and query, none of which catches it
Thrown == [t |-> "thrown"]

\*   Query.todo: () => ['Todo:1'], a list of entity keys
\*   Query.todo: () => { throw new Error() }
\* resolvers[fieldName](data, fieldArgs || {}, store, ctx)
CallResolver(resolver, data, fieldArgs, store) ==
  CASE resolver = "todoOne" ->
         Obj(("__typename" :> Str("Todo")) @@ ("id" :> Str("1")))
    [] resolver = "scalar" -> Num("1")
    [] resolver = "untyped" -> Obj("id" :> Str("1"))
    [] resolver = "null" -> Null
    [] resolver = "keys" -> Arr(<<Str("Todo:1")>>)
    [] resolver = "throws" -> Thrown
    [] OTHER -> Undef

----------------------------------------------------------------------------
(* operations/query.ts *)

\* What a read carries besides its data: ctx.partial, the dependencies added,
\* and a log of what the traversal did (the entity keys readSelection was
\* entered on, the root field keys the iterator yielded there, the fields
\* at which a selection was abandoned, and whether a resolver threw).
NewRead ==
  [partial |-> FALSE, deps |-> {}, entered |-> {}, yielded |-> {},
   poisoned |-> {}, threw |-> FALSE]

\* The store module's dependency capture: none is active outside a call
NoCapture == [active |-> FALSE, keys |-> {}]

\* initStoreState(0): a capture begins, with no key in it
initStoreState(capture) == [active |-> TRUE, keys |-> {}]

\* clearStoreState(): the capture ends
clearStoreState(capture) == NoCapture

\* addDependency(key); nothing of the read runs once a resolver has thrown
addDependency(rs, key) ==
  IF rs.threw THEN rs ELSE [rs EXCEPT !.deps = @ \cup {key}]

\* Variant with the test inverted: only the root entity is recorded
addEntityDependencyInverted(rs, isQuery, entityKey) ==
  IF isQuery THEN addDependency(rs, entityKey) ELSE rs

\* if (!isQuery) addDependency(entityKey)
addEntityDependency(rs, isQuery, entityKey) ==
  IF ~isQuery THEN addDependency(rs, entityKey) ELSE rs

\* if (isQuery) addDependency(fieldKey)
addFieldDependency(rs, isQuery, fieldKey) ==
  IF isQuery THEN addDependency(rs, fieldKey) ELSE rs

\* isDataOrKey(x)
isDataOrKey(x) ==
  IsString(x) \/ (x.t = "object" /\ IsString(Get(x, "__typename")))

\* Variant that never abandons a selection without a schema: an uncached
\* field is filled with null
fieldOutcomeLenient(schemaPredicates, typename, fieldName, dataFieldValue) ==
  IF schemaPredicates
  THEN IF dataFieldValue = Undef /\ isFieldNullable(typename, fieldName)
       THEN "fill"
       ELSE "return"
  ELSE IF dataFieldValue = Undef THEN "fill"
  ELSE "set"

\* Lines 356-375: what becomes of a field once dataFieldValue is known:
\* "fill" (null, partial), "return" (abandon the selection) or "set".
fieldOutcome(schemaPredicates, typename, fieldName, dataFieldValue) ==
  IF schemaPredicates
  THEN IF dataFieldValue = Undef /\ isFieldNullable(typename, fieldName)
       THEN "fill"
       ELSE "return"
  ELSE IF dataFieldValue = Undef THEN "return"
  ELSE "set"

\* return isQuery && ctx.partial && !hasFields ? undefined : data
selectionResult(isQuery, partial, hasFields, data) ==
  IF isQuery /\ partial /\ ~hasFields THEN Undef ELSE data

RECURSIVE readSelection(_, _, _, _, _)
RECURSIVE readFields(_, _, _, _, _, _, _, _)
RECURSIVE resolveResolverResult(_, _, _, _, _, _)
RECURSIVE resolveResolverList(_, _, _, _, _, _, _, _)
RECURSIVE resolveLink(_, _, _, _, _)
RECURSIVE resolveLinkList(_, _, _, _, _, _, _)
RECURSIVE readRoot(_, _, _, _, _)
RECURSIVE readRootLoop(_, _, _, _, _, _)
RECURSIVE readRootField(_, _, _, _)
RECURSIVE readRootFieldList(_, _, _, _, _, _)

\* What readSelection returned, as the value of the field it was read for
AsFieldValue(r) == [value |-> r.data, rs |-> r.rs]

\* newLink[i] = resolveLink(...), r being what resolveLink returned
resolveLinkListNext(ctx, link, select, prevData, i, newLink, r) ==
  resolveLinkList(ctx, link, select, prevData, i + 1, Append(newLink, r.value),
                  r.rs)

\* The array branch of resolveLink: link[i .. ] read into newLink
resolveLinkList(ctx, link, select, prevData, i, newLink, rs) ==
  IF i > Len(link.items) THEN [value |-> Arr(newLink), rs |-> rs]
  ELSE resolveLinkListNext(ctx, link, select, prevData, i, newLink,
         resolveLink(ctx, link.items[i], select, AtIndex(prevData, i), rs))

resolveLink(ctx, link, select, prevData, rs) ==
  IF link.t = "array"
  THEN resolveLinkList(ctx, link, select, prevData, 1, <<>>, rs)
  ELSE IF link = Null THEN [value |-> Null, rs |-> rs]
  ELSE AsFieldValue(readSelection(ctx, link.v, select, OrNewObject(prevData), rs))

resolveResolverListNext(ctx, result, key, select, prevData, i, acc, r) ==
  resolveResolverList(ctx, result, key, select, prevData, i + 1,
                      Append(acc, r.value), r.rs)

\* The array branch of resolveResolverResult (result.map)
resolveResolverList(ctx, result, key, select, prevData, i, acc, rs) ==
  IF i > Len(result.items) THEN [value |-> Arr(acc), rs |-> rs]
  ELSE resolveResolverListNext(ctx, result, key, select, prevData, i, acc,
         resolveResolverResult(ctx, result.items[i],
                               joinKeys(key, ToString(i - 1)), select,
                               AtIndex(prevData, i), rs))

\* (typeof result === 'string' ? result : keyOfEntity(result)) || key
childKeyOf(entityKey, key) ==
  IF entityKey = Null \/ entityKey.v = "" THEN key ELSE entityKey.v

\* Variant that hands an invalid resolver value on as the field's value
resolveResolverResultUnchecked(ctx, result, key, select, prevData, rs) ==
  IF result.t = "array"
  THEN resolveResolverList(ctx, result, key, select, prevData, 1, <<>>, rs)
  ELSE IF result = Null THEN [value |-> Null, rs |-> rs]
  ELSE IF isDataOrKey(result)
  THEN AsFieldValue(readSelection(
         ctx,
         childKeyOf(IF IsString(result) THEN result ELSE keyOfEntity(result), key),
         select, OrNewObject(prevData), rs))
  ELSE [value |-> result, rs |-> rs]

resolveResolverResult(ctx, result, key, select, prevData, rs) ==
  IF result.t = "array"
  THEN resolveResolverList(ctx, result, key, select, prevData, 1, <<>>, rs)
  ELSE IF result = Null THEN [value |-> Null, rs |-> rs]
  ELSE IF isDataOrKey(result)
  THEN AsFieldValue(readSelection(
         ctx,
         childKeyOf(IF IsString(result) THEN result ELSE keyOfEntity(result), key),
         select, OrNewObject(prevData), rs))
  ELSE [value |-> Undef, rs |-> rs]

WithData(r, data) == [value |-> r.value, data |-> data, rs |-> r.rs]

\* Lines 321-336: the resolver has returned resolverValue
resolvedValue(ctx, node, fieldKey, resolverValue, data, rs) ==
  IF resolverValue = Thrown
  THEN [value |-> Undef, data |-> data, rs |-> [rs EXCEPT !.threw = TRUE]]
  ELSE IF ~node.hasSel \/ resolverValue = Undef \/ resolverValue = Null
  THEN [value |-> IF resolverValue = Undef \/ resolverValue = Null
                  THEN Undef ELSE resolverValue,
        data |-> data, rs |-> rs]
  ELSE WithData(resolveResolverResult(ctx, resolverValue, fieldKey,
                                      getSelectionSet(node),
                                      Get(data, getFieldAlias(node)), rs),
                data)

\* Lines 314-319: the resolver is called with data
callResolver(ctx, typename, node, fieldKey, data, rs) ==
  resolvedValue(ctx, node, fieldKey,
                CallResolver(ctx.store.resolvers[<<typename, getName(node)>>],
                             data, getFieldArguments(node, ctx.variables),
                             ctx.store),
                data, rs)

\* Lines 342-351: the field has a selection set and no resolver
linkedValue(ctx, node, link, fieldValue, data, rs) ==
  IF link # Undef
  THEN WithData(resolveLink(ctx, link, getSelectionSet(node),
                            Get(data, getFieldAlias(node)), rs), data)
  ELSE IF fieldValue.t = "object"
  THEN [value |-> fieldValue, data |-> data, rs |-> rs]
  ELSE [value |-> Undef, data |-> data, rs |-> rs]

\* Lines 306-352: dataFieldValue of one field, with data as the resolver
\* branch leaves it
readFieldValue(ctx, typename, node, fieldKey, fieldValue, data, rs) ==
  IF <<typename, getName(node)>> \in DOMAIN ctx.store.resolvers
  THEN callResolver(ctx, typename, node, fieldKey,
                    IF fieldValue # Undef
                    THEN Set(data, getFieldAlias(node), fieldValue) ELSE data,
                    rs)
  ELSE IF ~node.hasSel
  THEN [value |-> fieldValue, data |-> data, rs |-> rs]
  ELSE linkedValue(ctx, node, getLink(ctx.store, fieldKey), fieldValue, data, rs)

\* The log entry of a selection abandoned at a field
Poisoned(rs, typename, fieldName, dataFieldValue) ==
  [rs EXCEPT !.poisoned = @ \cup
     {[typename |-> typename, fieldName |-> fieldName,
       cached |-> dataFieldValue # Undef]}]

\* Lines 356-375, f being the field's dataFieldValue
settleField(ctx, typename, entityKey, isQuery, step, outcome, f) ==
  IF outcome = "fill"
  THEN readFields(ctx, typename, entityKey, isQuery, step.it,
                  Set(f.data, getFieldAlias(step.node), Null), TRUE,
                  [f.rs EXCEPT !.partial = TRUE])
  ELSE IF outcome = "return"
  THEN [data |-> Undef,
        rs |-> Poisoned(f.rs, typename, getName(step.node), f.value)]
  ELSE readFields(ctx, typename, entityKey, isQuery, step.it,
                  Set(f.data, getFieldAlias(step.node), f.value), TRUE, f.rs)

readFieldOutcome(ctx, typename, entityKey, isQuery, step, f) ==
  settleField(ctx, typename, entityKey, isQuery, step,
              fieldOutcome(ctx.schemaPredicates, typename, getName(step.node),
                           f.value),
              f)

\* Lines 294-352 for the node the iterator returned
readField(ctx, typename, entityKey, isQuery, step, fieldKey, data, rs) ==
  readFieldOutcome(ctx, typename, entityKey, isQuery, step,
    readFieldValue(ctx, typename, step.node, fieldKey,
                   getRecord(ctx.store, fieldKey), data,
                   IF isQuery
                   THEN [addFieldDependency(rs, isQuery, fieldKey)
                           EXCEPT !.yielded = @ \cup {fieldKey}]
                   ELSE rs))

readFieldsStep(ctx, typename, entityKey, isQuery, step, data, hasFields, rs) ==
  IF step.node = NoNode
  THEN [data |-> selectionResult(isQuery, rs.partial, hasFields, data),
        rs |-> rs]
  ELSE readField(ctx, typename, entityKey, isQuery, step,
                 joinKeys(entityKey,
                          keyOfField(getName(step.node),
                                     getFieldArguments(step.node, ctx.variables))),
                 data, rs)

\* The while loop of readSelection
readFields(ctx, typename, entityKey, isQuery, iter, data, hasFields, rs) ==
  readFieldsStep(ctx, typename, entityKey, isQuery,
                 IterNext(iter, typename, entityKey, ctx), data, hasFields, rs)

\* Lines 283-288, typename being the entity's __typename
readTyped(ctx, entityKey, isQuery, typename, select, data, rs) ==
  IF ~IsString(typename) THEN [data |-> Undef, rs |-> rs]
  ELSE readFields(ctx, typename.v, entityKey, isQuery,
                  SelectionIterator(select),
                  Set(data, "__typename", typename), FALSE, rs)

\* Lines 276-282
readEntered(ctx, entityKey, isQuery, select, data, rs) ==
  readTyped(ctx, entityKey, isQuery,
            IF isQuery THEN Str(getRootKey("query"))
            ELSE getField(ctx.store, entityKey, "__typename"),
            select, data,
            [addEntityDependency(rs, isQuery, entityKey)
               EXCEPT !.entered = @ \cup {entityKey}])

readSelection(ctx, entityKey, select, data, rs) ==
  readEntered(ctx, entityKey, entityKey = getRootKey("query"), select, data, rs)

readRootFieldListNext(ctx, select, originalData, i, newData, r) ==
  readRootFieldList(ctx, select, originalData, i + 1, Append(newData, r.value),
                    r.rs)

\* The array branch of readRootField
readRootFieldList(ctx, select, originalData, i, newData, rs) ==
  IF i > Len(originalData.items) THEN [value |-> Arr(newData), rs |-> rs]
  ELSE readRootFieldListNext(ctx, select, originalData, i, newData,
         readRootField(ctx, select, originalData.items[i], rs))

\* return fieldValue === undefined ? null : fieldValue
NullIfUndefined(r) ==
  [value |-> IF r.data = Undef THEN Null ELSE r.data, rs |-> r.rs]

\* Lines 256-266, entityKey being keyOfEntity(originalData)
readRootEntity(ctx, select, originalData, entityKey, rs) ==
  IF entityKey # Null
  THEN NullIfUndefined(readSelection(ctx, entityKey.v, select, EmptyObj, rs))
  ELSE AsFieldValue(readRoot(ctx, Get(originalData, "__typename").v, select,
                             originalData, rs))

readRootField(ctx, select, originalData, rs) ==
  IF originalData.t = "array"
  THEN readRootFieldList(ctx, select, originalData, 1, <<>>, rs)
  ELSE IF originalData = Null THEN [value |-> Null, rs |-> rs]
  ELSE readRootEntity(ctx, select, originalData, keyOfEntity(originalData), rs)

\* data[fieldAlias] = readRootField(...), r being what readRootField returned
readRootSet(ctx, entityKey, step, originalData, data, r) ==
  readRootLoop(ctx, entityKey, step.it, originalData,
               Set(data, getFieldAlias(step.node), r.value), r.rs)

readRootStep(ctx, entityKey, step, originalData, fieldValue, data, rs) ==
  IF step.node.hasSel /\ fieldValue # Null /\ ~isScalar(fieldValue)
  THEN readRootSet(ctx, entityKey, step, originalData, data,
                   readRootField(ctx, getSelectionSet(step.node), fieldValue, rs))
  ELSE readRootLoop(ctx, entityKey, step.it, originalData,
                    Set(data, getFieldAlias(step.node), fieldValue), rs)

readRootNode(ctx, entityKey, step, originalData, data, rs) ==
  IF step.node = NoNode THEN [data |-> data, rs |-> rs]
  ELSE readRootStep(ctx, entityKey, step, originalData,
                    Get(originalData, getFieldAlias(step.node)), data, rs)

\* The while loop of readRoot
readRootLoop(ctx, entityKey, iter, originalData, data, rs) ==
  readRootNode(ctx, entityKey, IterNext(iter, entityKey, entityKey, ctx),
               originalData, data, rs)

\* Variant that reads the store when the data passed has no __typename
readRootOrSelection(ctx, entityKey, select, originalData, rs) ==
  IF ~IsString(Get(originalData, "__typename"))
  THEN readSelection(ctx, entityKey, select, EmptyObj, rs)
  ELSE readRootLoop(ctx, entityKey, SelectionIterator(select), originalData,
                    Set(EmptyObj, "__typename", Get(originalData, "__typename")),
                    rs)

readRoot(ctx, entityKey, select, originalData, rs) ==
  IF ~IsString(Get(originalData, "__typename"))
  THEN [data |-> originalData, rs |-> rs]
  ELSE readRootLoop(ctx, entityKey, SelectionIterator(select), originalData,
                    Set(EmptyObj, "__typename", Get(originalData, "__typename")),
                    rs)

\* request.query: the main operation, its selection and the fragments
getMainOperation(request) == request.query.operation
getFragments(request) == request.query.fragments

\* Variant that reports ctx.partial whatever the data
readResultUnguarded(r) ==
  [dependencies |-> r.rs.deps,
   partial |-> r.rs.partial,
   data |-> IF r.data = Undef THEN Null ELSE r.data,
   log |-> r.rs]

\* Lines 200-204, r being what readRoot or readSelection returned
readResult(r) ==
  [dependencies |-> r.rs.deps,
   partial |-> IF r.data = Undef THEN FALSE ELSE r.rs.partial,
   data |-> IF r.data = Undef THEN Null ELSE r.data,
   log |-> r.rs]

readFrom(ctx, rootKey, rootSelect, input) ==
  readResult(IF input # Undef
             THEN readRoot(ctx, rootKey, rootSelect, input,
                           [NewRead EXCEPT !.deps = ctx.store.dependencies.keys])
             ELSE readSelection(ctx, rootKey, rootSelect, EmptyObj,
                                [NewRead EXCEPT !.deps = ctx.store.dependencies.keys]))

\* read(store, request, input): input is Undef when no data is passed
read(store, request, input) ==
  readFrom([variables |-> request.variables,
            fragments |-> getFragments(request),
            store |-> store,
            schemaPredicates |-> store.schemaPredicates],
           getRootKey(getMainOperation(request)), request.query.sel, input)

\* query(store, request, data): initStoreState(0), then read; the caller's
\* store state is cleared by the action that applies it
query(store, request, data) ==
  read([store EXCEPT !.dependencies = initStoreState(@)], request, data)

----------------------------------------------------------------------------
(* Write path *)

RECURSIVE writeSelection(_, _, _, _, _)
RECURSIVE writeFields(_, _, _, _, _, _)
RECURSIVE writeField(_, _, _, _, _)
RECURSIVE writeFieldList(_, _, _, _, _, _, _)

writeFieldListNext(ctx, key, select, value, i, acc, r) ==
  writeFieldList(r.store, ctx, key, select, value, i + 1, Append(acc, r.link))

\* The array case of writeField: value.items[i ..] written, links collected
writeFieldList(store, ctx, key, select, value, i, acc) ==
  IF i > Len(value.items) THEN [store |-> store, link |-> Arr(acc)]
  ELSE writeFieldListNext(ctx, key, select, value, i, acc,
         writeField(store, ctx, joinKeys(key, ToString(i - 1)), select,
                    value.items[i]))

\* A mapping: a keyed entity is written under its own key and linked; an
\* embedded one is written under the field's key and gets no link (Undef).
writeEntity(store, ctx, key, select, value, childKey) ==
  IF childKey # Null
  THEN [store |-> writeSelection(store, ctx, childKey.v, select, value),
        link |-> childKey]
  ELSE [store |-> writeSelection(store, ctx, key, select, value),
        link |-> Undef]

\* Writes the value of a field with a selection set found at key; returns the
\* store and the link for it.
writeField(store, ctx, key, select, value) ==
  IF value = Null THEN [store |-> store, link |-> Null]
  ELSE IF value.t = "array"
  THEN writeFieldList(store, ctx, key, select, value, 1, <<>>)
  ELSE writeEntity(store, ctx, key, select, value, keyOfEntity(value))

writeLinked(ctx, typename, entityKey, step, data, fullKey, r) ==
  writeFields(IF r.link = Undef THEN r.store
              ELSE writeLink(r.store, fullKey, r.link),
              ctx, typename, entityKey, step.it, data)

writeValue(store, ctx, typename, entityKey, step, data, fullKey, value) ==
  IF value = Undef
  THEN writeFields(store, ctx, typename, entityKey, step.it, data)
  ELSE IF ~step.node.hasSel
  THEN writeFields(writeRecord(store, fullKey, value), ctx, typename,
                   entityKey, step.it, data)
  ELSE writeLinked(ctx, typename, entityKey, step, data, fullKey,
                   writeField(store, ctx, fullKey, getSelectionSet(step.node),
                              value))

writeNode(store, ctx, typename, entityKey, step, data) ==
  IF step.node = NoNode THEN store
  ELSE writeValue(store, ctx, typename, entityKey, step, data,
                  joinKeys(entityKey,
                           keyOfField(getName(step.node),
                                      getFieldArguments(step.node, ctx.variables))),
                  Get(data, getFieldAlias(step.node)))

\* For each field node of the selection (fragments expanded by the iterator)
writeFields(store, ctx, typename, entityKey, iter, data) ==
  writeNode(store, ctx, typename, entityKey,
            IterNext(iter, typename, entityKey, [ctx EXCEPT !.store = store]),
            data)

writeSelection(store, ctx, entityKey, select, data) ==
  writeFields(writeRecord(store, joinKeys(entityKey, "__typename"),
                          Get(data, "__typename")),
              ctx, Get(data, "__typename").v, entityKey,
              SelectionIterator(select), data)

\* write(store, request, data)
write(store, request, data) ==
  writeSelection(store,
                 [variables |-> request.variables,
                  fragments |-> getFragments(request),
                  store |-> store,
                  schemaPredicates |-> store.schemaPredicates],
                 getRootKey(getMainOperation(request)), request.query.sel, data)

----------------------------------------------------------------------------
(* Requests and results *)

MaxWrites == 2
MaxListLen == 1

\* { int }
IntQuery ==
  [operation |-> "query", fragments |-> <<>>, sel |-> <<Leaf("int")>>]

\* { todo { id text @include(if: $withText) } }
TodoQuery ==
  [operation |-> "query", fragments |-> <<>>,
   sel |-> <<Sub("todo",
     <<Leaf("id"),
       Field("text", "text", <<>>, <<[name |-> "include", value |-> Var("withText")]>>, FALSE, <<>>)>>)>>]

\* { n: int todo { id } }
ViewQuery ==
  [operation |-> "query", fragments |-> <<>>,
   sel |-> <<Field("int", "n", <<>>, <<>>, FALSE, <<>>),
             Sub("todo", <<Leaf("id")>>)>>]

\* { todos(first: $first) { __typename ...TodoFields ... on User { name } } }
\* fragment TodoFields on Todo { id }
TodosQuery ==
  [operation |-> "query",
   fragments |-> ("TodoFields" :>
     FragmentDefinition("TodoFields", "Todo", <<Leaf("id")>>)),
   sel |-> <<Field("todos", "todos",
                   <<[name |-> "first", value |-> Var("first")]>>, <<>>, TRUE,
     <<Leaf("__typename"), FragmentSpread("TodoFields"),
       InlineFragment("User", <<Leaf("name")>>)>>)>>]

\* mutation { mutate { viewer { int } } }
ViewerMutation ==
  [operation |-> "mutation", fragments |-> <<>>,
   sel |-> <<Sub("mutate", <<Sub("viewer", <<Leaf("int")>>)>>)>>]

Requests ==
  {[query |-> IntQuery, variables |-> <<>>],
   [query |-> TodoQuery, variables |-> [withText |-> "true"]],
   [query |-> TodoQuery, variables |-> [withText |-> "false"]],
   [query |-> ViewQuery, variables |-> <<>>],
   [query |-> TodosQuery, variables |-> [first |-> "1"]],
   [query |-> ViewerMutation, variables |-> <<>>]}


\* What a server returns for a field: scalars, or an object or list type.
FieldType(typename, fieldName) ==
  CASE <<typename, fieldName>> = <<"Query", "int">> ->
         [kind |-> "leaf", values |-> {Num("42"), Num("43")}]
    [] <<typename, fieldName>> = <<"Query", "todo">> ->
         [kind |-> "object", type |-> "Todo", nullable |-> TRUE]
    [] <<typename, fieldName>> = <<"Query", "todos">> ->
         [kind |-> "list", type |-> "Todo"]
    [] <<typename, fieldName>> = <<"Todo", "id">> ->
         [kind |-> "leaf", values |-> {Str("1"), Str("2")}]
    [] <<typename, fieldName>> = <<"Todo", "text">> ->
         [kind |-> "leaf", values |-> {Str("a")}]
    [] <<typename, fieldName>> = <<"Mutation", "mutate">> ->
         [kind |-> "object", type |-> "MutateResult", nullable |-> FALSE]
    [] <<typename, fieldName>> = <<"MutateResult", "viewer">> ->
         [kind |-> "object", type |-> "Query", nullable |-> FALSE]

RECURSIVE ResultsOfSelection(_, _, _)
RECURSIVE ResultsOfFields(_, _, _, _)

\* The values a server may return for a field of the selection
ResultsOfField(request, typename, node) ==
  LET type == FieldType(typename, getName(node))
      objects == IF type.kind = "leaf" THEN {}
                 ELSE ResultsOfSelection(request, type.type, getSelectionSet(node))
  IN CASE type.kind = "leaf" -> type.values
       [] type.kind = "object" ->
            objects \cup (IF type.nullable THEN {Null} ELSE {})
       [] type.kind = "list" ->
            {Arr(items) : items \in
               UNION {[1..n -> objects] : n \in 0..MaxListLen}}

ResultsOfFields(request, typename, iter, objects) ==
  LET ctx == [variables |-> request.variables,
              fragments |-> getFragments(request),
              store |-> [records |-> <<>>, links |-> <<>>],
              schemaPredicates |-> TRUE]
      step == IterNext(iter, typename, typename, ctx)
  IN IF step.node = NoNode THEN objects
     ELSE ResultsOfFields(request, typename, step.it,
            {Set(o, getFieldAlias(step.node), v) :
               o \in objects,
               v \in ResultsOfField(request, typename, step.node)})

\* Every result that supplies a value for each field the selection selects
\* on an object of the type
ResultsOfSelection(request, typename, select) ==
  ResultsOfFields(request, typename, SelectionIterator(select),
                  {Set(EmptyObj, "__typename", Str(typename))})

ResultsOf(request) ==
  ResultsOfSelection(request, getRootKey(getMainOperation(request)),
                     request.query.sel)

----------------------------------------------------------------------------
(* The cache: a store, written to and queried *)

NoRes == [kind |-> "none"]

\* Stores with and without a schema, without resolvers or with one that
\* returns a number or null; and stores without a schema for each resolver
Configs ==
  {[schemaPredicates |-> schemaPredicates, resolvers |-> resolvers] :
     schemaPredicates \in BOOLEAN,
     resolvers \in {<<>>} \cup
       {table \in ResolverTables : table[<<"Query", "todo">>] \in {"scalar", "null"}}}
  \cup {[schemaPredicates |-> FALSE, resolvers |-> resolvers] :
          resolvers \in ResolverTables}

\* The Store object the operations receive
TheStore ==
  [records |-> records, links |-> links,
   resolvers |-> config.resolvers,
   schemaPredicates |-> config.schemaPredicates,
   dependencies |-> deps]

NoIterator == [done |-> TRUE, nodes |-> <<>>]

CacheInit ==
  /\ records = <<>>
  /\ links = <<>>
  /\ config \in Configs
  /\ deps = NoCapture
  /\ history = <<>>
  /\ res = NoRes
  /\ iterator = NoIterator

Write(request, data) ==
  /\ res = NoRes
  /\ Len(history) < MaxWrites
  /\ records' = write(TheStore, request, data).records
  /\ links' = write(TheStore, request, data).links
  /\ history' = Append(history, [request |-> request, data |-> data])
  /\ UNCHANGED <<config, deps, res>>

\* How the call ends: it returns result, or the exception of a resolver
\* leaves it with the keys captured until then
Outcome(request, input, result) ==
  IF result.log.threw
  THEN [kind |-> "threw", request |-> request, input |-> input,
        captured |-> result.dependencies]
  ELSE [kind |-> "query", request |-> request, input |-> input,
        result |-> result]

\* Variant without clearStoreState(): the capture of the call stays
QueryUncleared(request, input) ==
  /\ res = NoRes
  /\ res' = Outcome(request, input, query(TheStore, request, input))
  /\ deps' = [active |-> TRUE,
              keys |-> IF res'.kind = "threw" THEN res'.captured
                       ELSE res'.result.dependencies]
  /\ UNCHANGED <<records, links, config, history>>

\* Variant that records the typename of the root it has read
QueryRecording(request, input) ==
  /\ res = NoRes
  /\ res' = Outcome(request, input, query(TheStore, request, input))
  /\ deps' = NoCapture
  /\ records' = ("Query.__typename" :> Str("Query")) @@ records
  /\ UNCHANGED <<links, config, history>>

\* initStoreState(0); const result = read(...); clearStoreState();
\* return result: clearStoreState() is not reached when read throws.
\* The read reaches the store through getRootKey, keyOfEntity, getField,
\* getRecord and getLink only, and leaves records and links as they are.
Query(request, input) ==
  /\ res = NoRes
  /\ res' = Outcome(request, input, query(TheStore, request, input))
  /\ deps' = IF res'.kind = "threw"
             THEN [active |-> TRUE, keys |-> res'.captured]
             ELSE clearStoreState([active |-> TRUE,
                                   keys |-> res'.result.dependencies])
  /\ UNCHANGED <<records, links, config, history>>

DoWrite ==
  /\ \E request \in {r \in Requests : r.query # ViewQuery} : \E data \in ResultsOf(request) :
       Write(request, data)
  /\ UNCHANGED <<populateVars, iterator>>

DoQuery ==
  /\ \E request \in Requests : Query(request, Undef)
  /\ UNCHANGED <<populateVars, iterator>>

\* Result data as a caller holds it once the __typename of its root is gone
WithoutTypename(data) ==
  Obj([alias \in DOMAIN data.f \ {"__typename"} |-> data.f[alias]])

\* query(store, request, data) is given result data that has been written,
\* with or without the __typename of its root
DoQueryWithData ==
  /\ \E i \in 1..Len(history) :
       \E input \in {history[i].data, WithoutTypename(history[i].data)} :
         Query(history[i].request, input)
  /\ UNCHANGED <<populateVars, iterator>>

\* The caller takes the result
Return ==
  /\ res # NoRes
  /\ res' = NoRes
  /\ UNCHANGED <<records, links, config, deps, history>>
  /\ UNCHANGED <<populateVars, iterator>>

PopulateInit ==
  /\ activeQueries = <<>>
  /\ parsedOperations = {}
  /\ typeFragments = <<>>
  /\ userFragments = <<>>
  /\ tornDown = {}
  /\ out = [kind |-> "none"]
  /\ stream = [received |-> <<>>, forwarded |-> <<>>]

Init == CacheInit /\ PopulateInit

Next == DoWrite \/ DoQuery \/ DoQueryWithData \/ Return

Spec == Init /\ [][Next]_vars

\* The same operations on a store without a schema whose resolver for
\* Query.todo returns a list of keys
InitResolvers ==
  /\ PopulateInit
  /\ records = <<>> /\ links = <<>>
  /\ config \in {[schemaPredicates |-> FALSE,
                   resolvers |-> (<<"Query", "todo">> :> resolver)] :
                    resolver \in {"keys", "throws"}}
  /\ deps = NoCapture /\ history = <<>> /\ res = NoRes
  /\ iterator = NoIterator

SpecResolvers == InitResolvers /\ [][Next]_vars


----------------------------------------------------------------------------
(* Populate transform (spec section 4.6; behaviour pinned by the tests of   *)
(* populateExchange)                                                        *)

\* The schema of the populateExchange tests: the named type a field returns
\* (list and non-null wrappers removed), "" for a scalar
PopulateFieldType(parentType, fieldName) ==
  CASE parentType = "Query" /\ fieldName = "todos" -> "Todo"
    [] parentType = "Query" /\ fieldName = "users" -> "User"
    [] parentType = "User" /\ fieldName = "todos" -> "Todo"
    [] parentType = "Todo" /\ fieldName = "creator" -> "User"
    [] parentType = "Mutation" /\ fieldName = "addTodo" -> "Todo"
    [] parentType = "Mutation" /\ fieldName = "removeTodo" -> "Node"
    [] parentType = "Mutation" /\ fieldName = "updateTodo" -> "UnionType"
    [] OTHER -> ""

ObjectTypes == {"User", "Todo"}

\* Variant that does not expand an abstract type
getTypesUnexpanded(type) == <<type>>

\* Variant that lists the concrete types by name
getTypesByName(type) ==
  IF type \in {"Node", "UnionType"} THEN <<"Todo", "User">> ELSE <<type>>

\* The concrete object types of a return type, in the schema's order
getTypes(type) ==
  CASE type = "Node" -> <<"Todo", "User">>
    [] type = "UnionType" -> <<"User", "Todo">>
    [] OTHER -> <<type>>

Document(operation, sel, definitions) ==
  [operation |-> operation, sel |-> sel, definitions |-> definitions]

Populate == [name |-> "populate", args |-> <<>>]

\* addTodo @populate
PopulateField(name, sel) == Field(name, name, <<>>, <<Populate>>, Len(sel) > 0, sel)

TodoFragment == FragmentDefinition("TodoFragment", "Todo", <<Leaf("id"), Leaf("text")>>)
CreatorFragment == FragmentDefinition("CreatorFragment", "User", <<Leaf("id"), Leaf("name")>>)
UserFragment == FragmentDefinition("UserFragment", "User", <<Leaf("id"), Leaf("name")>>)

\* query { todos { id text creator { id name } } users { todos { text } } }
NestedQuery ==
  Document("query",
    <<Sub("todos", <<Leaf("id"), Leaf("text"),
                     Sub("creator", <<Leaf("id"), Leaf("name")>>)>>),
      Sub("users", <<Sub("todos", <<Leaf("text")>>)>>)>>,
    <<>>)

\* query { todos { ...TodoFragment creator { ...CreatorFragment } } }
\* fragment TodoFragment on Todo { id text }
\* fragment CreatorFragment on User { id name }
FragmentQuery ==
  Document("query",
    <<Sub("todos", <<FragmentSpread("TodoFragment"),
                     Sub("creator", <<FragmentSpread("CreatorFragment")>>)>>)>>,
    <<TodoFragment, CreatorFragment>>)

\* query { todos { id text } users { ...UserFragment } }
\* fragment UserFragment on User { id name }
UnusedFragmentQuery ==
  Document("query",
    <<Sub("todos", <<Leaf("id"), Leaf("text")>>),
      Sub("users", <<FragmentSpread("UserFragment")>>)>>,
    <<UserFragment>>)

\* query { todos { ...TodoDetails } }
\* fragment TodoDetails on Todo { ...TodoFragment text }
\* fragment TodoFragment on Todo { id text }
NestedFragmentQuery ==
  Document("query",
    <<Sub("todos", <<FragmentSpread("TodoDetails")>>)>>,
    <<FragmentDefinition("TodoDetails", "Todo",
                         <<FragmentSpread("TodoFragment"), Leaf("text")>>),
      TodoFragment>>)

\* The queries of the stream, by operation key
QueryOperations ==
  ("q1" :> NestedQuery) @@ ("q2" :> FragmentQuery) @@ ("q3" :> UnusedFragmentQuery)
  @@ ("q4" :> NestedFragmentQuery)

\* The mutations of the stream, by operation key
MutationOperations ==
  ("m1" :> Document("mutation", <<PopulateField("addTodo", <<>>)>>, <<>>)) @@
  ("m2" :> Document("mutation",
             <<PopulateField("addTodo", <<FragmentSpread("TodoFragment")>>)>>,
             <<TodoFragment>>)) @@
  ("m3" :> Document("mutation", <<PopulateField("removeTodo", <<>>)>>, <<>>)) @@
  ("m4" :> Document("mutation", <<PopulateField("updateTodo", <<>>)>>, <<>>))

RECURSIVE extractSelections(_, _, _, _)
\* The selection set of a field of object type T becomes a fragment on T;
\* the walk then goes on inside the field
extractNode(node, parentType, key) ==
  IF node.kind = "Field" /\ node.hasSel
  THEN (IF PopulateFieldType(parentType, node.name) \in ObjectTypes
        THEN <<[type |-> PopulateFieldType(parentType, node.name),
                sel |-> node.sel, key |-> key]>>
        ELSE <<>>)
       \o extractSelections(node.sel, 1,
                            PopulateFieldType(parentType, node.name), key)
  ELSE IF node.kind = "InlineFragment"
  THEN extractSelections(node.sel, 1, node.typeCondition, key)
  ELSE <<>>

extractSelections(sel, i, parentType, key) ==
  IF i > Len(sel) THEN <<>>
  ELSE extractNode(sel[i], parentType, key)
       \o extractSelections(sel, i + 1, parentType, key)

\* Query: the selections of the operation, in document order
extractSelectionsFromQuery(key, document) ==
  extractSelections(document.sel, 1, "Query", key)

fragmentsOfType(fragments, type) ==
  IF type \in DOMAIN fragments THEN fragments[type] ELSE <<>>

\* Variant that names every fragment of a type alike
fragmentNameOfType(type, n) == type \o "_PopulateFragment_"

\* <Typename>_PopulateFragment_<n>, n counting the fragments of the type
fragmentName(type, n) == type \o "_PopulateFragment_" \o ToString(n)

addTypeFragment(fragments, new) ==
  (new.type :>
     Append(fragmentsOfType(fragments, new.type),
            [key |-> new.key,
             fragment |-> FragmentDefinition(
               fragmentName(new.type, Len(fragmentsOfType(fragments, new.type))),
               new.type, new.sel)]))
  @@ fragments

RECURSIVE addTypeFragments(_, _, _)
addTypeFragments(fragments, new, i) ==
  IF i > Len(new) THEN fragments
  ELSE addTypeFragments(addTypeFragment(fragments, new[i]), new, i + 1)

RECURSIVE addUserFragments(_, _, _)
addUserFragments(fragments, definitions, i) ==
  IF i > Len(definitions) THEN fragments
  ELSE addUserFragments((getName(definitions[i]) :> definitions[i]) @@ fragments,
                        definitions, i + 1)

\* The typenames a query references
typenamesOf(selections) == {selections[i].type : i \in 1..Len(selections)}

\* Variant that keeps a torn down query
handleTeardownKeep(active, key) == active

\* Teardown: the query's contribution leaves activeQueries
handleTeardown(active, key) == [k \in DOMAIN active \ {key} |-> active[k]]

RECURSIVE getUsedFragments(_, _)
getUsedFragmentsOfNode(node) ==
  IF node.kind = "FragmentSpread" THEN <<getName(node)>>
  ELSE getUsedFragments(node.sel, 1)

\* The names of the fragments spread anywhere inside a selection, in order
getUsedFragments(sel, i) ==
  IF i > Len(sel) THEN <<>>
  ELSE getUsedFragmentsOfNode(sel[i]) \o getUsedFragments(sel, i + 1)

RECURSIVE activeFragmentsOfTypes(_, _, _, _)
\* For each concrete type in turn, every live synthesized fragment on it
activeFragmentsOfTypes(types, i, fragments, active) ==
  IF i > Len(types) THEN <<>>
  ELSE (LET isLive(entry) == entry.key \in DOMAIN active
        IN SelectSeq(fragmentsOfType(fragments, types[i]), isLive))
       \o activeFragmentsOfTypes(types, i + 1, fragments, active)

\* The synthesized fragments a @populate field is given
fragmentsForField(node, parentType, fragments, active) ==
  activeFragmentsOfTypes(getTypes(PopulateFieldType(parentType, getName(node))),
                         1, fragments, active)

spreadsOf(entries) ==
  [i \in 1..Len(entries) |-> FragmentSpread(getName(entries[i].fragment))]

\* Variant without the __typename fallback
selectionsUnguarded(newSelections, existingSelections) ==
  newSelections \o existingSelections

\* The new spreads, then what the user wrote; a lone __typename when both
\* are empty
selectionsOrTypename(newSelections, existingSelections) ==
  IF Len(newSelections) + Len(existingSelections) # 0
  THEN newSelections \o existingSelections
  ELSE <<Leaf("__typename")>>

hasPopulate(node) ==
  node.kind = "Field" /\ \E i \in 1..Len(node.directives) :
                           getName(node.directives[i]) = "populate"

\* The field without its @populate directive, with its new selection set
populateField(node, entries) ==
  [node EXCEPT !.directives =
                 LET isKept(directive) == getName(directive) # "populate"
                 IN SelectSeq(node.directives, isKept),
               !.hasSel = TRUE,
               !.sel = selectionsOrTypename(spreadsOf(entries), node.sel)]

RECURSIVE populateSelections(_, _, _, _, _)
populateNode(node, parentType, fragments, active) ==
  IF hasPopulate(node)
  THEN populateField(node, fragmentsForField(node, parentType, fragments, active))
  ELSE IF node.kind = "Field" /\ node.hasSel
  THEN [node EXCEPT !.sel =
          populateSelections(node.sel, 1,
                             PopulateFieldType(parentType, getName(node)),
                             fragments, active)]
  ELSE node

\* Mutation: the selection set with every @populate field rewritten
populateSelections(sel, i, parentType, fragments, active) ==
  IF i > Len(sel) THEN <<>>
  ELSE <<populateNode(sel[i], parentType, fragments, active)>>
       \o populateSelections(sel, i + 1, parentType, fragments, active)

RECURSIVE additionalFragments(_, _, _, _, _)
additionalFragmentsOfNode(node, parentType, fragments, active) ==
  IF hasPopulate(node)
  THEN fragmentsForField(node, parentType, fragments, active)
  ELSE IF node.kind = "Field" /\ node.hasSel
  THEN additionalFragments(node.sel, 1,
                           PopulateFieldType(parentType, getName(node)),
                           fragments, active)
  ELSE <<>>

\* The synthesized fragments the rewritten fields spread, in order
additionalFragments(sel, i, parentType, fragments, active) ==
  IF i > Len(sel) THEN <<>>
  ELSE additionalFragmentsOfNode(sel[i], parentType, fragments, active)
       \o additionalFragments(sel, i + 1, parentType, fragments, active)

RECURSIVE uniqueDefinitions(_, _, _)
\* One definition per fragment name, in order of first appearance
uniqueDefinitions(definitions, i, done) ==
  IF i > Len(definitions) THEN done
  ELSE IF \E j \in 1..Len(done) : getName(done[j]) = getName(definitions[i])
  THEN uniqueDefinitions(definitions, i + 1, done)
  ELSE uniqueDefinitions(definitions, i + 1, Append(done, definitions[i]))

definitionsOf(entries) == [i \in 1..Len(entries) |-> entries[i].fragment]

RECURSIVE usedByDefinitions(_, _)
usedByDefinitions(definitions, i) ==
  IF i > Len(definitions) THEN <<>>
  ELSE getUsedFragments(definitions[i].sel, 1)
       \o usedByDefinitions(definitions, i + 1)

RECURSIVE requiredUserFragmentsAgain(_, _, _, _)
\* Variant that does not look at what the mutation document defines itself
requiredUserFragmentsAgain(pending, done, users, existing) ==
  IF pending = <<>> THEN done
  ELSE IF \/ Head(pending) \notin DOMAIN users
          \/ \E j \in 1..Len(done) : getName(done[j]) = Head(pending)
  THEN requiredUserFragmentsAgain(Tail(pending), done, users, existing)
  ELSE requiredUserFragmentsAgain(
         Tail(pending) \o getUsedFragments(users[Head(pending)].sel, 1),
         Append(done, users[Head(pending)]), users, existing)

RECURSIVE requiredUserFragments(_, _, _, _)
\* The user fragments referenced, directly or through other user fragments,
\* and not defined by the mutation document itself
requiredUserFragments(pending, done, users, existing) ==
  IF pending = <<>> THEN done
  ELSE IF \/ Head(pending) \notin DOMAIN users
          \/ Head(pending) \in existing
          \/ \E j \in 1..Len(done) : getName(done[j]) = Head(pending)
  THEN requiredUserFragments(Tail(pending), done, users, existing)
  ELSE requiredUserFragments(
         Tail(pending) \o getUsedFragments(users[Head(pending)].sel, 1),
         Append(done, users[Head(pending)]), users, existing)

\* Variant that re-attaches every user fragment collected from the queries
withEveryUserDefinition(document, sel, synthesized, users) ==
  Document(document.operation, sel,
           document.definitions \o synthesized
           \o requiredUserFragments(
                <<"TodoFragment", "CreatorFragment", "UserFragment",
                  "TodoDetails">>, <<>>, users,
                {getName(document.definitions[i]) :
                   i \in 1..Len(document.definitions)}))

\* Document leave: the definitions of the document, the synthesized
\* fragments spread, and the user fragments those reference
withDefinitions(document, sel, synthesized, users) ==
  Document(document.operation, sel,
           document.definitions \o synthesized
           \o requiredUserFragments(usedByDefinitions(synthesized, 1), <<>>,
                                    users,
                                    {getName(document.definitions[i]) :
                                       i \in 1..Len(document.definitions)}))

addFragmentsToQuery(document, fragments, active, users) ==
  withDefinitions(
    document,
    populateSelections(document.sel, 1, "Mutation", fragments, active),
    uniqueDefinitions(
      definitionsOf(additionalFragments(document.sel, 1, "Mutation",
                                        fragments, active)), 1, <<>>),
    users)

\* A query seen for the first time is walked and becomes live
\* The operations as they arrive on the stream
QueryOperation(key) ==
  [kind |-> "query", key |-> key, query |-> QueryOperations[key]]

TeardownOperation(key) == [kind |-> "teardown", key |-> key]

MutationOperation(key) ==
  [kind |-> "mutation", key |-> key, query |-> MutationOperations[key]]

HandleQuery(key) ==
  /\ key \notin parsedOperations
  /\ parsedOperations' = parsedOperations \cup {key}
  /\ typeFragments' =
       addTypeFragments(typeFragments,
                        extractSelectionsFromQuery(key, QueryOperations[key]), 1)
  /\ userFragments' =
       addUserFragments(userFragments, QueryOperations[key].definitions, 1)
  /\ activeQueries' =
       (key :> typenamesOf(extractSelectionsFromQuery(key, QueryOperations[key])))
       @@ activeQueries
  /\ tornDown' = tornDown \ {key}
  /\ out' = QueryOperation(key)

\* Variant that forwards a teardown without its key
HandleTeardownUnkeyed(key) ==
  /\ activeQueries' = handleTeardown(activeQueries, key)
  /\ tornDown' = IF key \in parsedOperations THEN tornDown \cup {key} ELSE tornDown
  /\ out' = [kind |-> "teardown", key |-> "none"]
  /\ UNCHANGED <<parsedOperations, typeFragments, userFragments>>

\* A query seen before is not walked again. Whether it is live again after
\* a teardown is left open: both outcomes are behaviours of the model.
HandleKnownQuery(key, live) ==
  /\ key \in parsedOperations
  /\ activeQueries' =
       IF live
       THEN (key :> typenamesOf(extractSelectionsFromQuery(key,
                                                   QueryOperations[key])))
            @@ activeQueries
       ELSE activeQueries
  /\ tornDown' = tornDown \ {key}
  /\ out' = QueryOperation(key)
  /\ UNCHANGED <<parsedOperations, typeFragments, userFragments>>

HandleTeardown(key) ==
  /\ activeQueries' = handleTeardown(activeQueries, key)
  /\ tornDown' = IF key \in parsedOperations THEN tornDown \cup {key} ELSE tornDown
  /\ out' = TeardownOperation(key)
  /\ UNCHANGED <<parsedOperations, typeFragments, userFragments>>

HandleMutation(key) ==
  /\ out' = [kind |-> "mutation", key |-> key,
             query |-> addFragmentsToQuery(MutationOperations[key],
                                           typeFragments, activeQueries,
                                           userFragments)]
  /\ UNCHANGED <<activeQueries, parsedOperations, typeFragments, userFragments,
                 tornDown>>

OnQuery ==
  (\E key \in DOMAIN QueryOperations : HandleQuery(key))
  /\ UNCHANGED <<cacheVars, stream>>

OnKnownQuery ==
  (\E key \in DOMAIN QueryOperations : \E live \in BOOLEAN : HandleKnownQuery(key, live))
  /\ UNCHANGED <<cacheVars, stream>>

OnTeardown ==
  (\E key \in DOMAIN QueryOperations : HandleTeardown(key))
  /\ UNCHANGED <<cacheVars, stream>>

OnMutation ==
  (\E key \in DOMAIN MutationOperations : HandleMutation(key))
  /\ UNCHANGED <<cacheVars, stream>>

InitPopulate ==
  /\ PopulateInit
  /\ records = <<>> /\ links = <<>>
  /\ config = [schemaPredicates |-> TRUE, resolvers |-> <<>>]
  /\ deps = NoCapture /\ history = <<>> /\ res = NoRes
  /\ iterator = NoIterator

NextPopulate == OnQuery \/ OnKnownQuery \/ OnTeardown \/ OnMutation

SpecPopulate == InitPopulate /\ [][NextPopulate]_vars

\* The transform as a stage of the operation stream: each operation
\* received is handled to completion and what the stage emits is forwarded
MaxOps == 3

Forward(operation) ==
  /\ Len(stream.received) < MaxOps
  /\ stream' = [received |-> Append(stream.received, operation),
                forwarded |-> Append(stream.forwarded, out')]
  /\ UNCHANGED cacheVars

ReceiveQuery ==
  \E key \in DOMAIN QueryOperations :
    /\ HandleQuery(key)
    /\ Forward(QueryOperation(key))

ReceiveKnownQuery ==
  \E key \in DOMAIN QueryOperations : \E live \in BOOLEAN :
    /\ HandleKnownQuery(key, live)
    /\ Forward(QueryOperation(key))

ReceiveTeardown ==
  \E key \in DOMAIN QueryOperations :
    /\ HandleTeardown(key)
    /\ Forward(TeardownOperation(key))

ReceiveMutation ==
  \E key \in DOMAIN MutationOperations :
    /\ HandleMutation(key)
    /\ Forward(MutationOperation(key))

NextStream == ReceiveQuery \/ ReceiveKnownQuery \/ ReceiveTeardown \/ ReceiveMutation

SpecStream == InitPopulate /\ [][NextStream]_vars

----------------------------------------------------------------------------
(* The selection iterator on its own: an iterator is constructed on a       *)
(* selection and next() is called until it returns undefined                *)

\* id
\* ... on Todo { ...Nested text @skip(if: $skip) }
\* ...Unknown
\* ...Details @include(if: $include)
\* __typename
\* ... on User { name id }
\* author { id }
\*   fragment Nested on Todo { __typename ... on Node { complete } }
\*   fragment Details on Todo { text }
\* and the selection of TodosQuery's todos field
IteratorDocuments ==
  {[fragments |->
      ("Nested" :> FragmentDefinition("Nested", "Todo",
         <<Leaf("__typename"), InlineFragment("Node", <<Leaf("complete")>>)>>))
      @@ ("Details" :> FragmentDefinition("Details", "Todo", <<Leaf("text")>>)),
    sel |->
      <<Leaf("id"),
        InlineFragment("Todo",
          <<FragmentSpread("Nested"),
            Field("text", "text", <<>>,
                  <<[name |-> "skip", value |-> Var("skip")]>>, FALSE, <<>>)>>),
        FragmentSpread("Unknown"),
        [kind |-> "FragmentSpread", name |-> "Details",
         directives |-> <<[name |-> "include", value |-> Var("include")]>>],
        Leaf("__typename"),
        InlineFragment("User", <<Leaf("name"), Leaf("id")>>),
        Sub("author", <<Leaf("id")>>)>>],
   [fragments |-> TodosQuery.fragments, sel |-> TodosQuery.sel[1].sel]}

\* The records of the entity the iterator is constructed for
IteratorStores ==
  {<<>>,
   ("Todo:1.name" :> Str("n")),
   ("Todo:1.id" :> Str("1")) @@ ("Todo:1.complete" :> Str("true")),
   ("Todo:1.id" :> Str("1")) @@ ("Todo:1.text" :> Str("a"))
     @@ ("Todo:1.complete" :> Str("true")) @@ ("Todo:1.name" :> Str("n"))}

\* new SelectionIterator(typename, entityKey, select, ctx)
InitIterator ==
  /\ PopulateInit
  /\ links = <<>> /\ deps = NoCapture /\ history = <<>> /\ res = NoRes
  /\ config \in {[schemaPredicates |-> schemaPredicates, resolvers |-> <<>>] :
                    schemaPredicates \in BOOLEAN}
  /\ records \in IteratorStores
  /\ \E document \in IteratorDocuments :
     \E skip \in {"true", "false"} : \E include \in {"true", "false"} :
     \E typename \in {"Todo", "User", ""} :
       iterator = [done |-> FALSE, nodes |-> <<>>, extra |-> 0,
               it |-> SelectionIterator(document.sel),
               select |-> document.sel,
               fragments |-> document.fragments,
               variables |-> [skip |-> skip, include |-> include],
               typename |-> typename,
               entityKey |-> "Todo:1"]

\* The context the iterator was given
IteratorContext ==
  [variables |-> iterator.variables, fragments |-> iterator.fragments,
   store |-> TheStore, schemaPredicates |-> config.schemaPredicates]

\* The calls of next() made after it has returned undefined
MaxExtraCalls == 2

\* iterator.next(), r being what it returned: done once it has returned
\* undefined, extra counting the calls made after that
Returned(r) ==
  iterator' = [iterator EXCEPT !.it = r.it,
                       !.nodes = IF r.node = NoNode THEN @ ELSE Append(@, r.node),
                       !.done = @ \/ r.node = NoNode,
                       !.extra = IF iterator.done THEN @ + 1 ELSE @]

IteratorNext ==
  /\ ~iterator.done \/ iterator.extra < MaxExtraCalls
  /\ Returned(IterNext(iterator.it, iterator.typename, iterator.entityKey,
                       IteratorContext))
  /\ UNCHANGED <<records, links, config, deps, history, res>>
  /\ UNCHANGED populateVars

NextIterator == IteratorNext

SpecIterator == InitIterator /\ [][NextIterator]_vars

----------------------------------------------------------------------------
(* isScalar, applied to values of the data model *)

\* The longest array isScalar is given
MaxItems == 2

\* null, a number, a string, a boolean, a mapping without __typename, a
\* mapping whose __typename is a string and one whose __typename is not
ScalarAtoms ==
  {Null, Num("1"), Str("a"), [t |-> "boolean", v |-> "true"],
   Obj("id" :> Str("1")),
   Obj(("__typename" :> Str("Todo")) @@ ("id" :> Str("1"))),
   Obj("__typename" :> Num("1"))}

ArraysOf(elements) ==
  {Arr(items) : items \in UNION {[1..n -> elements] : n \in 0..MaxItems}}

\* The atoms, arrays of them, and arrays that hold arrays
ScalarInputs ==
  ScalarAtoms \cup ArraysOf(ScalarAtoms \cup {Arr(<<>>)}
                           \cup {Arr(<<x>>) : x \in ScalarAtoms})

InitScalar ==
  /\ PopulateInit
  /\ records = <<>> /\ links = <<>>
  /\ config = [schemaPredicates |-> FALSE, resolvers |-> <<>>]
  /\ deps = NoCapture /\ history = <<>>
  /\ iterator = NoIterator
  /\ \E x \in ScalarInputs : res = [kind |-> "value", x |-> x]

\* isScalar(x)
ApplyIsScalar ==
  /\ res.kind = "value"
  /\ res' = [kind |-> "isScalar", x |-> res.x, result |-> isScalar(res.x)]
  /\ UNCHANGED <<records, links, config, deps, history, iterator>>
  /\ UNCHANGED populateVars

NextScalar == ApplyIsScalar

SpecScalar == InitScalar /\ [][NextScalar]_vars

----------------------------------------------------------------------------
(* Properties of the read path *)

LastWrite == history[Len(history)]

\* The query that has just returned was a normalized read (no data passed)
NormalizedRead == res.kind = "query" /\ res.input = Undef

ContextOf(request) ==
  [variables |-> request.variables, fragments |-> getFragments(request),
   store |-> TheStore, schemaPredicates |-> config.schemaPredicates]

RECURSIVE FieldNodes(_, _, _, _)
\* The field nodes the iterator yields for a selection, in order
FieldNodesFrom(step, typename, entityKey, ctx) ==
  IF step.node = NoNode THEN <<>>
  ELSE <<step.node>> \o FieldNodes(step.it, typename, entityKey, ctx)

FieldNodes(iter, typename, entityKey, ctx) ==
  FieldNodesFrom(IterNext(iter, typename, entityKey, ctx), typename, entityKey,
                 ctx)

FullKey(entityKey, node, ctx) ==
  joinKeys(entityKey,
           keyOfField(getName(node), getFieldArguments(node, ctx.variables)))

\* The store holds neither a record nor a link for the field
Uncached(entityKey, node, ctx) == ~hasField(ctx.store, FullKey(entityKey, node, ctx))

HasResolver(typename, node) ==
  <<typename, getName(node)>> \in DOMAIN config.resolvers

RECURSIVE UncachedThroughSingleLinks(_, _, _)
\* Some field without a resolver that the read reaches from the entity
\* through single (non-list) links has no value in the store
UncachedThroughSingleLinks(entityKey, select, ctx) ==
  LET typename == IF entityKey = "Query" THEN "Query"
                  ELSE getField(ctx.store, entityKey, "__typename").v
      nodes == FieldNodes(SelectionIterator(select), typename, entityKey, ctx)
  IN \E i \in 1..Len(nodes) :
       /\ ~HasResolver(typename, nodes[i])
       /\ \/ Uncached(entityKey, nodes[i], ctx)
          \/ /\ nodes[i].hasSel
             /\ IsString(getLink(ctx.store, FullKey(entityKey, nodes[i], ctx)))
             /\ UncachedThroughSingleLinks(
                  getLink(ctx.store, FullKey(entityKey, nodes[i], ctx)).v,
                  getSelectionSet(nodes[i]), ctx)

\* C1 -- Round-trip: a write of a result R for query Q followed by a read of
\* Q (no prior data) returns data deep-equal to R and partial = false,
\* with or without a schema oracle (stores without resolvers).
C1_RoundTrip ==
  (/\ NormalizedRead
   /\ config.resolvers = <<>>
   /\ history # <<>>
   /\ getMainOperation(res.request) = "query"
   /\ res.request = LastWrite.request)
  => (res.result.data = LastWrite.data /\ res.result.partial = FALSE)

\* The round trip holds on the stores that have no schema oracle.
RoundTripWithoutSchema == ~config.schemaPredicates => C1_RoundTrip

\* C2 -- With a schema oracle, a selection is abandoned at a field only when
\* that field is uncached and the oracle reports it non-nullable; a cached
\* field never causes the selection to be abandoned.
C2_AbandonedOnlyAtUncachedNonNullable ==
  (res.kind = "query" /\ config.schemaPredicates)
  => \A p \in res.result.log.poisoned :
       ~p.cached /\ ~isFieldNullable(p.typename, p.fieldName)

\* C3 -- With a schema oracle that reports root field F nullable, a read whose
\* selection includes F (its other fields being cached or nullable) against a
\* store with no value for F returns partial = true and data[alias of F] = null.
C3_NullableUncachedIsNull ==
  (NormalizedRead /\ config.schemaPredicates
   /\ getMainOperation(res.request) = "query")
  => LET ctx == ContextOf(res.request)
         nodes == FieldNodes(SelectionIterator(res.request.query.sel),
                             "Query", "Query", ctx)
     IN \A i \in 1..Len(nodes) :
          (/\ isFieldNullable("Query", getName(nodes[i]))
           /\ Uncached("Query", nodes[i], ctx)
           /\ \A j \in 1..Len(nodes) :
                Uncached("Query", nodes[j], ctx)
                => isFieldNullable("Query", getName(nodes[j])))
          => /\ res.result.partial = TRUE
             /\ Get(res.result.data, getFieldAlias(nodes[i])) = Null

\* C4 -- Without a schema oracle, if a field the read reaches from the root
\* through single links is uncached, query returns data = null, partial = false.
C4_UncachedPoisonsWithoutSchema ==
  (/\ NormalizedRead
   /\ ~config.schemaPredicates
   /\ getMainOperation(res.request) = "query"
   /\ UncachedThroughSingleLinks("Query", res.request.query.sel,
                                 ContextOf(res.request)))
  => (res.result.data = Null /\ res.result.partial = FALSE)

\* The uncached field is in an entity reached through a link: Todo:1 is in the
\* store without its text, and the read of { todo { id text } } returned null.
C4_Witness ==
  /\ NormalizedRead
  /\ ~config.schemaPredicates /\ config.resolvers = <<>>
  /\ getLink(TheStore, "Query.todo") = Str("Todo:1")
  /\ getRecord(TheStore, "Todo:1.id") # Undef
  /\ getRecord(TheStore, "Todo:1.text") = Undef
  /\ res.request = [query |-> TodoQuery, variables |-> [withText |-> "true"]]
  /\ "Todo:1" \in res.result.log.entered
  /\ res.result.data = Null

C6_RootOverwrite ==
  (/\ NormalizedRead
   /\ Len(history) >= 2
   /\ history[Len(history) - 1].request.query = IntQuery
   /\ LastWrite.request.query = ViewerMutation
   /\ res.request.query = IntQuery)
  => /\ res.result.partial = FALSE
     /\ res.result.data =
          Obj(("__typename" :> Str("Query")) @@
              ("int" :> Get(Get(Get(LastWrite.data, "mutate"), "viewer"), "int")))

\* Without a schema oracle the mutation's value is read back.
RootOverwriteWithoutSchema == ~config.schemaPredicates => C6_RootOverwrite

\* The query that has just returned was given data without a string
\* __typename
UntypedRead ==
  /\ res.kind = "query"
  /\ res.input # Undef
  /\ ~IsString(Get(res.input, "__typename"))

\* C15 (as stated) -- Choice of read mode: the root-merge read runs only
\* when prior data with a string __typename is supplied; with no prior data,
\* or with prior data whose __typename is not a string, the result is that
\* of the normalized read from the root key.
C15_NormalizedReadUnlessTyped ==
  (NormalizedRead \/ UntypedRead)
  => /\ res.result.data = query(TheStore, res.request, Undef).data
     /\ res.result.partial = query(TheStore, res.request, Undef).partial

\* C15 (amended) -- Choice of read mode: with no prior data the result is
\* that of the normalized read from the root key; with prior data whose
\* __typename is not a string the prior data is returned as it is, with
\* partial = false and no dependencies, and the store is not read.
C15_UntypedDataReturned ==
  /\ UntypedRead
     => /\ res.result.data = res.input
        /\ res.result.partial = FALSE
        /\ res.result.dependencies = {}
        /\ res.result.log.entered = {}
  /\ NormalizedRead
     => /\ res.result.log.entered # {}
        /\ \/ res.result.data = Null
           \/ IsString(Get(res.result.data, "__typename"))

\* Data without __typename came back although the store reads differently
C15_Witness ==
  /\ UntypedRead
  /\ res.result.data = res.input
  /\ records # <<>>
  /\ query(TheStore, res.request, Undef).data \notin {Null, res.input}

TodoResolver ==
  IF <<"Query", "todo">> \in DOMAIN config.resolvers
  THEN config.resolvers[<<"Query", "todo">>] ELSE "none"

\* The store without resolvers and without a value for Query.todo
StoreWithoutTodo ==
  [TheStore EXCEPT
     !.resolvers = <<>>,
     !.records = [key \in DOMAIN records \ {"Query.todo"} |-> records[key]],
     !.links = [key \in DOMAIN links \ {"Query.todo"} |-> links[key]]]

\* The normalized read that has just returned called the resolver of
\* Query.todo for a field with a selection set
TodoResolved == NormalizedRead /\ "Query.todo" \in res.result.log.yielded

\* C17 -- Invalid resolver return: when the resolver of a field with a
\* selection set returns a scalar or an object without __typename, the read
\* gives what it gives when the field is uncached: the selection is
\* abandoned at the field without a schema, and the field is null with
\* partial = true when it is nullable under a schema.
C17_InvalidResolverValueIsUncached ==
  (TodoResolved /\ TodoResolver \in {"scalar", "untyped"})
  => /\ res.result.data = query(StoreWithoutTodo, res.request, Undef).data
     /\ res.result.partial = query(StoreWithoutTodo, res.request, Undef).partial
     /\ res.result.dependencies
          = query(StoreWithoutTodo, res.request, Undef).dependencies
     /\ ~config.schemaPredicates
        => /\ res.result.data = Null
           /\ [typename |-> "Query", fieldName |-> "todo", cached |-> FALSE]
                \in res.result.log.poisoned
     /\ config.schemaPredicates
        => /\ Get(res.result.data, "todo") = Null
           /\ res.result.partial

\* A number returned for { todo { id text } } although the store holds the
\* todo, on a store without a schema
C17_Witness ==
  /\ TodoResolved /\ TodoResolver = "scalar"
  /\ ~config.schemaPredicates
  /\ getLink(TheStore, "Query.todo") = Str("Todo:1")
  /\ res.result.data = Null

\* C19 -- Resolver returning null: when the resolver of a field with a
\* selection set returns null or undefined, the field is read as null and the
\* selection is not abandoned at that field.
C19_NullResolverValueIsNull ==
  (TodoResolved /\ TodoResolver \in {"null", "undefined"})
  => /\ \A entry \in res.result.log.poisoned :
          ~(entry.typename = "Query" /\ entry.fieldName = "todo")
     /\ res.result.data # Null => Get(res.result.data, "todo") = Null

----------------------------------------------------------------------------
(* Properties of the populate transform *)

Rewritten == out.kind = "mutation"

\* The mutation as it was received
Original == MutationOperations[out.key]

\* The root fields of the received mutation that carry @populate
PopulatedFields ==
  {i \in 1..Len(Original.sel) :
     \E d \in 1..Len(Original.sel[i].directives) :
       Original.sel[i].directives[d].name = "populate"}

LiveKeys == DOMAIN activeQueries

\* Every synthesized fragment recorded so far, with its originating key
SynthesizedEntries ==
  UNION {{typeFragments[type][i] : i \in 1..Len(typeFragments[type])} :
           type \in DOMAIN typeFragments}

\* What the rewrite put in front of the user's selections on field i (the
\* lone __typename of an otherwise empty selection set is not part of it)
NewSelections(i) ==
  IF Original.sel[i].sel = <<>> /\ out.query.sel[i].sel = <<Leaf("__typename")>>
  THEN <<>>
  ELSE SubSeq(out.query.sel[i].sel, 1,
              Len(out.query.sel[i].sel) - Len(Original.sel[i].sel))

NewSpreadNames(i) ==
  {NewSelections(i)[j].name : j \in 1..Len(NewSelections(i))}

RECURSIVE SpreadNamesIn(_)
\* The names spread anywhere inside a selection
SpreadNamesIn(sel) ==
  UNION {IF sel[i].kind = "FragmentSpread" THEN {sel[i].name}
         ELSE SpreadNamesIn(sel[i].sel) : i \in 1..Len(sel)}

\* Every name spread in the rewritten document, in the operation or in a
\* fragment definition
OutputSpreadNames ==
  SpreadNamesIn(out.query.sel)
  \cup UNION {SpreadNamesIn(out.query.definitions[i].sel) :
                i \in 1..Len(out.query.definitions)}

OutputDefinitions ==
  {out.query.definitions[i] : i \in 1..Len(out.query.definitions)}

OutputDefinedNames == {def.name : def \in OutputDefinitions}

\* The concrete types of the schema that satisfy a return type
Members(type) ==
  IF type \in {"Node", "UnionType"} THEN {"User", "Todo"} ELSE {type}

ReturnType(i) == PopulateFieldType("Mutation", Original.sel[i].name)

RECURSIVE Occurrences(_, _, _)
\* Every selection set a document applies to a field of an object type,
\* with the path of the field
Occurrences(sel, parentType, path) ==
  UNION {IF sel[i].kind = "Field" /\ sel[i].hasSel
         THEN (IF PopulateFieldType(parentType, sel[i].name) \in ObjectTypes
               THEN {[path |-> Append(path, i),
                      type |-> PopulateFieldType(parentType, sel[i].name),
                      sel |-> sel[i].sel]}
               ELSE {})
              \cup Occurrences(sel[i].sel,
                               PopulateFieldType(parentType, sel[i].name),
                               Append(path, i))
         ELSE {} : i \in 1..Len(sel)}

\* The selection sets the live queries apply to fields of the type
LiveOccurrences(type) ==
  {o \in UNION {{[key |-> k, path |-> occ.path, type |-> occ.type,
                  sel |-> occ.sel] :
                   occ \in Occurrences(QueryOperations[k].sel, "Query", <<>>)} :
                  k \in LiveKeys} : o.type = type}

\* C7 -- Populate teardown: once query K was observed and a teardown with
\* key K arrived, a @populate rewrite contains no spread of and no definition
\* for a synthesized fragment that originated from K; if no query is live the
\* field's selection is exactly { __typename }.
C7_PopulateTeardown ==
  (Rewritten /\ tornDown # {})
  => /\ \A entry \in SynthesizedEntries :
          entry.key \in tornDown
          => /\ entry.fragment.name \notin OutputSpreadNames
             /\ entry.fragment.name \notin OutputDefinedNames
     /\ LiveKeys = {}
        => \A i \in PopulatedFields :
             Original.sel[i].sel = <<>>
             => out.query.sel[i].sel = <<Leaf("__typename")>>

\* q1 was torn down while q3 is live: the rewrite of addTodo @populate spreads
\* the fragment of q3 only
C7_Witness ==
  /\ Rewritten /\ out.key = "m1"
  /\ "q1" \in tornDown
  /\ LiveKeys = {"q3"}
  /\ Cardinality(NewSpreadNames(1)) = 1

\* C8 -- Populate empty: with no live query (none observed, or all torn
\* down), a @populate field without user selection is rewritten to exactly
\* { __typename }, the directive is removed and no definition is appended.
C8_PopulateEmpty ==
  (Rewritten /\ LiveKeys = {})
  => /\ \A i \in PopulatedFields :
          /\ Original.sel[i].sel = <<>>
             => /\ out.query.sel[i].hasSel
                /\ out.query.sel[i].sel = <<Leaf("__typename")>>
          /\ out.query.sel[i].directives = <<>>
     /\ out.query.definitions = Original.definitions

\* Queries were observed and all torn down before addTodo @populate arrived
C8_Witness ==
  /\ Rewritten /\ out.key = "m1"
  /\ LiveKeys = {}
  /\ parsedOperations # {}
  /\ out.query.sel[1].sel = <<Leaf("__typename")>>

\* C9 -- Populate coverage: for a @populate field returning object type T the
\* rewrite spreads exactly one synthesized fragment on T per selection set a
\* live query applies to a field of type T, its body that selection set; each
\* is defined in the document, and every spread of the output has a
\* definition in the output.
C9_PopulateCoverage ==
  Rewritten
  => /\ \A i \in PopulatedFields :
          ReturnType(i) \in ObjectTypes
          => /\ \A j \in 1..Len(NewSelections(i)) :
                  NewSelections(i)[j].kind = "FragmentSpread"
             /\ Cardinality(NewSpreadNames(i)) = Len(NewSelections(i))
             /\ Len(NewSelections(i)) = Cardinality(LiveOccurrences(ReturnType(i)))
             /\ \A name \in NewSpreadNames(i) :
                  \E def \in OutputDefinitions :
                    /\ def.name = name
                    /\ def.typeCondition = ReturnType(i)
                    /\ \E o \in LiveOccurrences(ReturnType(i)) : o.sel = def.sel
             /\ \A o \in LiveOccurrences(ReturnType(i)) :
                  \E def \in OutputDefinitions :
                    def.name \in NewSpreadNames(i) /\ def.sel = o.sel
     /\ OutputSpreadNames \subseteq OutputDefinedNames

\* Two queries are live; addTodo @populate { ...TodoFragment } is given the
\* three selection sets they apply to Todo fields
C9_Witness ==
  /\ Rewritten /\ out.key = "m2"
  /\ LiveKeys = {"q1", "q2"}
  /\ Cardinality(NewSpreadNames(1)) = 3
  /\ "CreatorFragment" \in OutputDefinedNames

\* The synthesized fragments the rewrite spreads on its @populate fields
EmittedEntries ==
  {entry \in SynthesizedEntries :
     \E i \in PopulatedFields : entry.fragment.name \in NewSpreadNames(i)}

RECURSIVE ReferencedFrom(_, _)
\* The names reached from a set of names through the user fragments, in at
\* most n rounds
ReferencedFrom(names, n) ==
  IF n = 0 THEN names
  ELSE ReferencedFrom(
         names \cup UNION {SpreadNamesIn(userFragments[name].sel) :
                             name \in names \cap DOMAIN userFragments},
         n - 1)

\* The user fragments an emitted synthesized fragment refers to, directly or
\* through other user fragments
RequiredUserNames ==
  ReferencedFrom(UNION {SpreadNamesIn(entry.fragment.sel) :
                          entry \in EmittedEntries},
                 Cardinality(DOMAIN userFragments))
  \cap DOMAIN userFragments

\* C10 -- Populate abstract return types: for a @populate field the rewrite
\* spreads the synthesized fragments of every concrete type of the return
\* type's expansion (implementors of an interface, members of a union) that
\* live queries observed, and none for types outside that expansion.
C10_PopulateAbstractTypes ==
  Rewritten
  => \A i \in PopulatedFields :
       NewSpreadNames(i) =
         {entry.fragment.name :
            entry \in {e \in SynthesizedEntries :
                         /\ e.key \in LiveKeys
                         /\ e.fragment.typeCondition \in Members(ReturnType(i))}}

\* updateTodo @populate (a union) is given fragments on User and on Todo
C10_Witness ==
  /\ Rewritten /\ out.key = "m4"
  /\ \E a, b \in OutputDefinitions :
       /\ a.name \in NewSpreadNames(1) /\ a.typeCondition = "User"
       /\ b.name \in NewSpreadNames(1) /\ b.typeCondition = "Todo"

\* C11 -- Populate user fragments are re-attached exactly once: every user
\* fragment an emitted synthesized fragment refers to, directly or through
\* other user fragments, is defined in the rewritten mutation, and no
\* fragment name is defined twice in it, also when the mutation defines and
\* spreads the same user fragment itself.
C11_UserFragmentsOnce ==
  Rewritten
  => /\ RequiredUserNames \subseteq OutputDefinedNames
     /\ Cardinality(OutputDefinedNames) = Len(out.query.definitions)

\* addTodo @populate { ...TodoFragment } with its own TodoFragment, while the
\* live query q4 reaches TodoFragment through TodoDetails
C11_Witness ==
  /\ Rewritten /\ out.key = "m2"
  /\ "q4" \in LiveKeys
  /\ {"TodoDetails", "TodoFragment"} \subseteq RequiredUserNames
  /\ "TodoDetails" \in OutputDefinedNames

\* C12 -- Populate excludes unreferenced user fragments: a user fragment
\* collected from an observed query is copied into a rewritten mutation only
\* if a synthesized fragment emitted for that mutation spreads it, directly
\* or through other user fragments.
C12_UnreferencedFragmentsExcluded ==
  Rewritten
  => \A def \in OutputDefinitions :
       (/\ def.name \in DOMAIN userFragments
        /\ \A i \in 1..Len(Original.definitions) :
             Original.definitions[i].name # def.name)
       => def.name \in RequiredUserNames

\* q3 is live and uses UserFragment under users only: addTodo @populate is
\* given the Todo fragment of q3 and not UserFragment
C12_Witness ==
  /\ Rewritten /\ out.key = "m1"
  /\ LiveKeys = {"q3"}
  /\ "UserFragment" \in DOMAIN userFragments
  /\ "UserFragment" \notin OutputDefinedNames
  /\ EmittedEntries # {}

\* The synthesized fragment of a name
EntryOf(name) == CHOOSE entry \in SynthesizedEntries : entry.fragment.name = name

\* Its place among the fragments synthesized on its type
IndexOf(entry) ==
  CHOOSE n \in 1..Len(typeFragments[entry.fragment.typeCondition]) :
    typeFragments[entry.fragment.typeCondition][n] = entry

TypenameRank(type) == IF type = "Todo" THEN 1 ELSE 2

KeyRank(key) == CHOOSE n \in 1..4 : <<"q1", "q2", "q3", "q4">>[n] = key

\* The order in which the schema lists the concrete types of a return type
\* (as the interface and union snapshots show it)
ExpansionRank(returnType, type) ==
  CASE returnType = "Node" -> IF type = "Todo" THEN 1 ELSE 2
    [] returnType = "UnionType" -> IF type = "User" THEN 1 ELSE 2
    [] OTHER -> 1

\* The appended synthesized definitions are the spreads of the field, in
\* the same order
DefinitionsFollowSpreads(i) ==
  \A j \in 1..Len(NewSelections(i)) :
    /\ Len(Original.definitions) + j <= Len(out.query.definitions)
    /\ out.query.definitions[Len(Original.definitions) + j].name
         = NewSelections(i)[j].name

----------------------------------------------------------------------------
(* Properties of the selection iterator *)

\* A fragment is entered when the context's matching predicate accepts it
Matches(fragmentNode) ==
  IF config.schemaPredicates
  THEN isInterfaceOfType(getTypeCondition(fragmentNode), iterator.typename)
  ELSE isFragmentHeuristicallyMatching(fragmentNode, iterator.typename,
                                       iterator.entityKey, IteratorContext)

RECURSIVE Flattening(_)
\* What a node of a selection contributes to the flattening
FlatteningOfNode(node) ==
  IF ~shouldInclude(node, iterator.variables) THEN <<>>
  ELSE IF node.kind = "Field"
  THEN IF node.name = "__typename" THEN <<>> ELSE <<node>>
  ELSE IF node.kind = "InlineFragment"
  THEN IF Matches(node) THEN Flattening(node.sel) ELSE <<>>
  ELSE IF node.name \notin DOMAIN iterator.fragments THEN <<>>
  ELSE IF Matches(iterator.fragments[node.name])
  THEN Flattening(iterator.fragments[node.name].sel)
  ELSE <<>>

\* The depth-first, document-order flattening of a selection
Flattening(select) ==
  IF select = <<>> THEN <<>>
  ELSE FlatteningOfNode(Head(select)) \o Flattening(Tail(select))

IsPrefix(a, b) == Len(a) <= Len(b) /\ a = SubSeq(b, 1, Len(a))

\* C20 -- The field nodes successive next() calls return are, in order, the
\* depth-first document-order flattening of the selection: nodes excluded by
\* @skip/@include dropped, a fragment spread or inline fragment replaced in
\* place by the flattening of its selection when it matches and dropped when
\* it does not match or names an unknown fragment, __typename fields dropped.
C20_IteratorFlattens ==
  ~(iterator = NoIterator)
  => /\ IsPrefix(iterator.nodes, Flattening(iterator.select))
     /\ iterator.done => iterator.nodes = Flattening(iterator.select)

\* An iterator that has returned undefined after going through nested
\* matching fragments, a skipped field, an unknown spread and a fragment that
\* does not match
C20_Witness ==
  /\ ~(iterator = NoIterator) /\ iterator.done
  /\ Len(iterator.nodes) = 4
  /\ iterator.nodes[2].name = "complete"
  /\ iterator.nodes[3].name = "text"
  /\ iterator.nodes[4].name = "author"
  /\ iterator.variables = [skip |-> "true", include |-> "true"]
  /\ config.schemaPredicates

\* Every field of the fragment's selection has a value in the store under the
\* entity the iterator was constructed for
EveryFieldPresent(fragmentNode) ==
  \A i \in 1..Len(fragmentNode.sel) :
    fragmentNode.sel[i].kind = "Field"
    => joinKeys(iterator.entityKey,
                keyOfField(fragmentNode.sel[i].name,
                           getFieldArguments(fragmentNode.sel[i],
                                             iterator.variables)))
         \in (DOMAIN records \cup DOMAIN links)

\* Whether a fragment applies, by the schema ("oracle") or by the store
\* ("heuristic")
AppliesBy(fragmentNode, mode) ==
  IF mode = "oracle"
  THEN isInterfaceOfType(fragmentNode.typeCondition, iterator.typename)
  ELSE \/ iterator.typename = fragmentNode.typeCondition
       \/ EveryFieldPresent(fragmentNode)

RECURSIVE FlatteningBy(_, _)
FlatteningOfNodeBy(node, mode) ==
  IF ~shouldInclude(node, iterator.variables) THEN <<>>
  ELSE IF node.kind = "Field"
  THEN IF node.name = "__typename" THEN <<>> ELSE <<node>>
  ELSE IF node.kind = "InlineFragment"
  THEN IF AppliesBy(node, mode) THEN FlatteningBy(node.sel, mode) ELSE <<>>
  ELSE IF node.name \notin DOMAIN iterator.fragments THEN <<>>
  ELSE IF AppliesBy(iterator.fragments[node.name], mode)
  THEN FlatteningBy(iterator.fragments[node.name].sel, mode)
  ELSE <<>>

\* The field nodes of a selection, its fragments entered when they apply
FlatteningBy(select, mode) ==
  IF select = <<>> THEN <<>>
  ELSE FlatteningOfNodeBy(Head(select), mode) \o FlatteningBy(Tail(select), mode)

\* C21 -- With a schema oracle a fragment (spread or inline) is descended
\* into iff isInterfaceOfType(typeCondition, typename) holds: the nodes the
\* iterator returns are those of the selection with exactly these fragments
\* entered, whatever the store holds.
C21_OracleDecidesFragments ==
  (~(iterator = NoIterator) /\ config.schemaPredicates)
  => /\ IsPrefix(iterator.nodes, FlatteningBy(iterator.select, "oracle"))
     /\ iterator.done => iterator.nodes = FlatteningBy(iterator.select, "oracle")

\* With an oracle: ... on User { name id } is not entered for a Todo although
\* the store has the name, and ... on Node { complete } is entered although
\* the store has no such field
C21_Witness ==
  /\ ~(iterator = NoIterator) /\ iterator.done
  /\ config.schemaPredicates
  /\ iterator.typename = "Todo"
  /\ records = ("Todo:1.name" :> Str("n"))
  /\ \E n \in 1..Len(iterator.nodes) : iterator.nodes[n].name = "complete"
  /\ \A n \in 1..Len(iterator.nodes) : iterator.nodes[n].name # "name"
  /\ \E n \in 1..Len(iterator.select) :
       iterator.select[n] = InlineFragment("User", <<Leaf("name"), Leaf("id")>>)

\* C22 -- Without a schema oracle a fragment matches iff the typename
\* equals its type condition or every field of its selection is in the store
\* under the entity's key; a fragment with another type condition and a
\* selected field the store lacks does not match.
C22_HeuristicDecidesFragments ==
  (~(iterator = NoIterator) /\ ~config.schemaPredicates /\ iterator.typename # "")
  => /\ IsPrefix(iterator.nodes, FlatteningBy(iterator.select, "heuristic"))
     /\ iterator.done
        => iterator.nodes = FlatteningBy(iterator.select, "heuristic")

\* Without an oracle, for a Todo: ... on Node { complete } is entered
\* because the store has the field, ... on User { name id } is not because
\* the store has the id but lacks the name
C22_Witness ==
  /\ ~(iterator = NoIterator) /\ iterator.done
  /\ ~config.schemaPredicates
  /\ iterator.typename = "Todo"
  /\ records = ("Todo:1.id" :> Str("1")) @@ ("Todo:1.complete" :> Str("true"))
  /\ \E n \in 1..Len(iterator.nodes) : iterator.nodes[n].name = "complete"
  /\ \A n \in 1..Len(iterator.nodes) : iterator.nodes[n].name # "name"
  /\ \E n \in 1..Len(iterator.select) :
       iterator.select[n] = InlineFragment("User", <<Leaf("name"), Leaf("id")>>)

----------------------------------------------------------------------------
(* Further properties of the read path *)

\* C23 -- If the root selection produced no fields and partial is true,
\* query returns data = null: a read that returns partial = true returns a
\* root object at least one of whose selected fields has a value in the
\* cache, not one whose fields were all filled with null.
C23_PartialRootHasCachedField ==
  (NormalizedRead /\ res.result.partial)
  => /\ res.result.data # Null
     /\ \E key \in res.result.log.yielded : hasField(TheStore, key)

RECURSIVE HasUndefinedElement(_)
\* Some list in the value, at any depth, has an undefined element
HasUndefinedElement(value) ==
  IF value.t = "array"
  THEN \E i \in 1..Len(value.items) :
         value.items[i] = Undef \/ HasUndefinedElement(value.items[i])
  ELSE IF value.t = "object"
  THEN \E alias \in DOMAIN value.f : HasUndefinedElement(value.f[alias])
  ELSE FALSE

\* C24 -- In a read without a schema oracle that returns data, every element
\* of every list in data is null or an object that was read completely: an
\* entity of a list whose selection the cache cannot satisfy makes the read
\* return data = null, it does not leave an undefined element in the list.
C24_NoUndefinedListElement ==
  (res.kind = "query" /\ ~config.schemaPredicates /\ res.result.data # Null)
  => ~HasUndefinedElement(res.result.data)

\* C25 -- Whenever query returns partial = true the store has a schema
\* oracle and data is not null: a store without a schema never reports
\* partial = true, and data = null always comes with partial = false.
C25_PartialNeedsSchemaAndData ==
  res.kind = "query"
  => /\ res.result.partial
        => (config.schemaPredicates /\ res.result.data # Null)
     /\ res.result.data = Null => ~res.result.partial

\* A read that filled a field with null and was abandoned afterwards:
\* data = null is reported with partial = false
C25_Witness ==
  /\ res.kind = "query"
  /\ res.result.log.partial
  /\ res.result.data = Null
  /\ ~res.result.partial

\* C26 -- The dependency capture begun by query is ended on every way out
\* of the call: when a resolver invoked during the read throws, the store's
\* dependency state is cleared all the same, and the next read or write
\* starts with no capture left over.
C26_CaptureEndedWhenResolverThrows ==
  /\ res.kind = "threw" => deps = NoCapture
  /\ res = NoRes => deps = NoCapture

----------------------------------------------------------------------------
(* Further properties of SelectionIterator *)

RECURSIVE ExpandedSize(_)
\* The number of field nodes a node stands for when every fragment is taken
\* and no directive excludes anything
ExpandedSizeOfNode(node) ==
  IF node.kind = "Field" THEN 1
  ELSE IF node.kind = "InlineFragment" THEN ExpandedSize(node.sel)
  ELSE IF node.name \notin DOMAIN iterator.fragments THEN 0
  ELSE ExpandedSize(iterator.fragments[node.name].sel)

ExpandedSize(select) ==
  IF select = <<>> THEN 0
  ELSE ExpandedSizeOfNode(Head(select)) + ExpandedSize(Tail(select))

\* C27 -- For a selection whose fragment spreads are acyclic, repeated calls
\* of next() return finitely many field nodes and then undefined: a call
\* returns one more node or undefined, and the nodes returned never
\* outnumber the field nodes of the expanded selection. Once next() has
\* returned undefined, indexStack and selectionStack are empty and stay
\* empty, and every later call returns undefined as well.
C27_IteratorTerminates ==
  /\ [](~(iterator = NoIterator)
        => /\ Len(iterator.nodes) <= ExpandedSize(iterator.select)
           /\ iterator.done => /\ iterator.it.indexStack = <<>>
                                /\ iterator.it.selectionStack = <<>>)
  /\ [][IF iterator.done
        THEN /\ iterator'.done
             /\ iterator'.nodes = iterator.nodes
             /\ iterator'.it = iterator.it
        ELSE \/ iterator'.done /\ iterator'.nodes = iterator.nodes
             \/ ~iterator'.done
                /\ Len(iterator'.nodes) = Len(iterator.nodes) + 1]_vars

\* next() has been called again after it returned undefined, on an iterator
\* that had yielded nodes from inside a fragment
C27_Witness ==
  /\ iterator.done
  /\ iterator.extra >= 2
  /\ Len(iterator.nodes) > 2

----------------------------------------------------------------------------
(* Properties of isScalar *)

RECURSIVE ScalarOfDataModel(_)
\* A scalar of the data model: null, a number, a string, a boolean, a
\* mapping without a string __typename, or an array of scalars
ScalarOfDataModel(x) ==
  IF x.t = "array"
  THEN \A i \in 1..Len(x.items) : ScalarOfDataModel(x.items[i])
  ELSE IF x.t = "object" THEN ~IsString(Get(x, "__typename"))
  ELSE TRUE

\* C29 -- isScalar agrees with the data model: it is true for null,
\* numbers, strings, booleans, mappings without a string __typename and
\* arrays all of whose elements are scalars, and false for a mapping that
\* carries a string __typename and for arrays of such mappings.
C29_IsScalarAgreesWithDataModel ==
  res.kind = "isScalar" => (res.result <=> ScalarOfDataModel(res.x))

====
